---- MODULE Spec2Model ----
(***************************************************************************)
(* Model of the MCR tile acceptance calculator: tiles and groups           *)
(* (mahjong_objects.py), the proto-group enumerators and the recursive     *)
(* decomposition search with its per-call memo (group_finder.py), and the  *)
(* parts of the acceptance engine that call them                           *)
(* (tile_acceptance_calculator.py).                                        *)
(*                                                                         *)
(* A tile is a record [number, family]; a family is the value of the       *)
(* Family enum ("s", "m", "p", "z").  A Python list or tuple is a          *)
(* sequence, a dict is a function whose DOMAIN is the set of its keys, a   *)
(* raised exception is the err field of what an operator returns.          *)
(***************************************************************************)
EXTENDS Integers, Sequences, FiniteSets, TLC

VARIABLES call, pc, result, analysis

vars == <<call, pc, result, analysis>>

-----------------------------------------------------------------------------
(* mahjong_objects.py: Family, MahjongTile                                 *)

BAMBOO == "s"
CHARACTER == "m"
CIRCLE == "p"
HONOR == "z"

\* iteration order of the Family enum (its definition order)
Family == <<BAMBOO, CHARACTER, CIRCLE, HONOR>>

MahjongTile(number, family) == [number |-> number, family |-> family]

\* MahjongTile.__lt__
TileLt(self, other) ==
    \* family.value < other.family.value: the order of the one-letter strings
    LET FamilyValueRank(family) ==
            CASE family = "m" -> 1
              [] family = "p" -> 2
              [] family = "s" -> 3
              [] family = "z" -> 4
    IN
    \/ FamilyValueRank(self.family) < FamilyValueRank(other.family)
    \/ self.family = other.family /\ self.number < other.number

is_honor(self) == self.family = HONOR

is_compatible_with_half_flush(self, family) == self.family \in {family, HONOR}

is_symmetric(self) ==
    self \in {MahjongTile(5, "z"), MahjongTile(1, "p"), MahjongTile(2, "p"),
              MahjongTile(3, "p"), MahjongTile(4, "p"), MahjongTile(5, "p"),
              MahjongTile(8, "p"), MahjongTile(9, "p"), MahjongTile(2, "s"),
              MahjongTile(4, "s"), MahjongTile(5, "s"), MahjongTile(6, "s"),
              MahjongTile(8, "s"), MahjongTile(9, "s")}

is_green(self) ==
    self \in {MahjongTile(6, "z"), MahjongTile(2, "s"), MahjongTile(3, "s"),
              MahjongTile(4, "s"), MahjongTile(6, "s"), MahjongTile(8, "s")}

is_even(self) == self.family # HONOR /\ self.number % 2 = 0

is_terminal(self) == self.family # HONOR /\ self.number \in {1, 9}

-----------------------------------------------------------------------------
(* list and tuple helpers: what the Python built-ins used by the code do   *)

Range(s) == {s[i] : i \in DOMAIN s}

\* list.remove(x): drops the first element equal to x
RECURSIVE ListRemove(_, _)
ListRemove(list, x) ==
    IF list = <<>> THEN <<>>
    ELSE IF Head(list) = x THEN Tail(list)
    ELSE <<Head(list)>> \o ListRemove(Tail(list), x)

\* list.count(x)
ListCount(list, x) == Cardinality({i \in DOMAIN list : list[i] = x})

\* sorted(numbers) for a list of integers
RECURSIVE InsertNumber(_, _)
InsertNumber(sorted, n) ==
    IF sorted = <<>> THEN <<n>>
    ELSE IF n < Head(sorted) THEN <<n>> \o sorted
    ELSE <<Head(sorted)>> \o InsertNumber(Tail(sorted), n)

RECURSIVE SortedNumbers(_)
SortedNumbers(numbers) ==
    IF numbers = <<>> THEN <<>>
    ELSE InsertNumber(SortedNumbers(SubSeq(numbers, 1, Len(numbers) - 1)),
                      numbers[Len(numbers)])

\* Python's tuple comparison a < b on groups: the first differing position
\* decides, by MahjongTile.__lt__; a proper prefix is smaller
RECURSIVE GroupLt(_, _)
GroupLt(a, b) ==
    IF a = <<>> THEN b # <<>>
    ELSE IF b = <<>> THEN FALSE
    ELSE IF Head(a) = Head(b) THEN GroupLt(Tail(a), Tail(b))
    ELSE TileLt(Head(a), Head(b))

\* min(group), max(group) by MahjongTile.__lt__ (the first extremal element)
RECURSIVE TileMin(_)
TileMin(group) ==
    IF Len(group) = 1 THEN group[1]
    ELSE LET m == TileMin(Tail(group))
         IN IF TileLt(m, Head(group)) THEN m ELSE Head(group)

RECURSIVE TileMax(_)
TileMax(group) ==
    IF Len(group) = 1 THEN group[1]
    ELSE LET m == TileMax(Tail(group))
         IN IF TileLt(Head(group), m) THEN m ELSE Head(group)

\* get_tiles_from_family
get_tiles_from_family(tiles, family) ==
    SelectSeq(tiles, LAMBDA tile : tile.family = family)

-----------------------------------------------------------------------------
(* group_finder.py: groups, residue, waits, constraints                    *)

\* _get_group: the tuple of the tiles of one family with the given numbers
_get_group(numbers, family) ==
    [i \in 1..Len(numbers) |-> MahjongTile(numbers[i], family)]

_get_group_residue_first_only(group, tiles) == ListRemove(tiles, group[1])

\* _get_group_residue: the tiles with one occurrence of each group tile removed
RECURSIVE _get_group_residue(_, _)
_get_group_residue(group, tiles) ==
    IF group = <<>> THEN tiles
    ELSE _get_group_residue(Tail(group), ListRemove(tiles, Head(group)))

find_simple_waits_unclipped(group) ==
    IF Len(group) # 2 THEN {}
    ELSE LET tile1 == TileMin(group)
             tile2 == TileMax(group)
         IN IF tile1 = tile2 THEN {tile1}
            ELSE IF tile2.number - tile1.number = 1
                 THEN {MahjongTile(tile1.number - 1, tile1.family),
                       MahjongTile(tile2.number + 1, tile1.family)}
            ELSE IF tile2.number - tile1.number = 2
                 THEN {MahjongTile((tile1.number + tile2.number) \div 2, tile1.family)}
            ELSE {}

\* find_simple_waits_for_two_tiles
find_simple_waits_for_two_tiles(group) ==
    IF Len(group) # 2 THEN {}
    ELSE LET tile1 == TileMin(group)
             tile2 == TileMax(group)
         IN IF tile1 = tile2 THEN {tile1}
            ELSE IF tile2.number - tile1.number = 1
                 THEN (IF tile1.number > 1
                       THEN {MahjongTile(tile1.number - 1, tile1.family)} ELSE {})
                      \cup
                      (IF tile2.number < 9
                       THEN {MahjongTile(tile2.number + 1, tile1.family)} ELSE {})
            ELSE IF tile2.number - tile1.number = 2
                 THEN {MahjongTile((tile1.number + tile2.number) \div 2, tile1.family)}
            ELSE {}

\* the members of the Constraint enum
Constraint ==
    {"NONE", "ORDINARY", "NO_HONOR", "FULL_TERMINALS", "FULL_HONORS",
     "FULL_TERMINALS_OR_HONORS", "CONTAINS_TERMINALS_OR_HONORS", "FIRST_FOUR",
     "LAST_FOUR", "FIRST_THREE", "MIDDLE_THREE", "LAST_THREE", "EVEN",
     "SYMMETRIC", "GREEN", "CONTAINS_FIVE", "FLUSH_BAMBOO", "FLUSH_CIRCLE",
     "FLUSH_CHARACTER"}

\* one case of the match statement of _get_respected_constraints: whether the
\* constraint is removed for the group (a constraint with no case is kept)
ConstraintRemoved(constraint, group) ==
    CASE constraint = "NONE" -> FALSE
      [] constraint = "FLUSH_BAMBOO" ->
           (\E tile \in Range(group) : ~is_compatible_with_half_flush(tile, BAMBOO))
      [] constraint = "FLUSH_CIRCLE" ->
           (\E tile \in Range(group) : ~is_compatible_with_half_flush(tile, CIRCLE))
      [] constraint = "FLUSH_CHARACTER" ->
           (\E tile \in Range(group) : ~is_compatible_with_half_flush(tile, CHARACTER))
      [] constraint = "FIRST_FOUR" ->
           (\E tile \in Range(group) : tile.number > 4 \/ is_honor(tile))
      [] constraint = "LAST_FOUR" ->
           (\E tile \in Range(group) : tile.number < 6 \/ is_honor(tile))
      [] constraint = "FIRST_THREE" ->
           (\E tile \in Range(group) : tile.number > 3 \/ is_honor(tile))
      [] constraint = "MIDDLE_THREE" ->
           (\E tile \in Range(group) : ~(4 <= tile.number /\ tile.number <= 6) \/ is_honor(tile))
      [] constraint = "LAST_THREE" ->
           (\E tile \in Range(group) : tile.number < 7 \/ is_honor(tile))
      [] constraint = "SYMMETRIC" ->
           \/ (\E tile \in Range(group) : ~is_symmetric(tile))
           \/ LET waits == find_simple_waits_for_two_tiles(group)
              IN waits # {} /\ \A tile \in waits : ~is_symmetric(tile)
      [] constraint = "FULL_TERMINALS_OR_HONORS" ->
           (\E tile \in Range(group) : ~is_honor(tile) /\ ~is_terminal(tile))
      [] constraint = "FULL_HONORS" -> (\E tile \in Range(group) : ~is_honor(tile))
      [] constraint = "FULL_TERMINALS" -> (\E tile \in Range(group) : ~is_terminal(tile))
      [] constraint = "EVEN" -> (\E tile \in Range(group) : ~is_even(tile))
      [] constraint = "GREEN" -> (\E tile \in Range(group) : ~is_green(tile))
      [] OTHER -> FALSE

\* the loop of _get_respected_constraints over constraints[i..]
RECURSIVE RespectedFrom(_, _, _, _)
RespectedFrom(group, constraints, i, respected_constraints) ==
    IF i > Len(constraints) THEN respected_constraints
    ELSE RespectedFrom(group, constraints, i + 1,
            IF ConstraintRemoved(constraints[i], group)
            THEN ListRemove(respected_constraints, constraints[i])
            ELSE respected_constraints)

_get_respected_constraints_unfiltered(group, constraints) == constraints

_get_respected_constraints_of_first_tile(group, constraints) ==
    IF constraints = <<>> THEN <<>>
    ELSE RespectedFrom(<<group[1]>>, constraints, 1, constraints)

\* _get_respected_constraints
_get_respected_constraints(group, constraints) ==
    IF constraints = <<>> THEN <<>>
    ELSE RespectedFrom(group, constraints, 1, constraints)

-----------------------------------------------------------------------------
(* group_finder.py: the three proto-group enumerators.  A generator is the *)
(* sequence of the (group, residue, respected constraints) it yields.      *)
(* An enumerator first lists the number shapes it tries for one tile, in   *)
(* the order of its if statements, and YieldGroups then does, for each,    *)
(* the "if respected_constraints: yield ..." that follows every shape.     *)

\* "if respected_constraints: yield new_group, _get_group_residue(...), ..."
YieldIfRespected(new_group, tiles, respected_constraints) ==
    IF respected_constraints # <<>>
    THEN <<[group |-> new_group,
            residue |-> _get_group_residue(new_group, tiles),
            respected |-> respected_constraints]>>
    ELSE <<>>

\* new_group = _get_group(...); respected_constraints = ...; if ...: yield
YieldGroup(new_group, tiles, constraints) ==
    YieldIfRespected(new_group, tiles, _get_respected_constraints(new_group, constraints))

RECURSIVE YieldGroups(_, _, _, _, _)
YieldGroups(shapes, i, family, tiles, constraints) ==
    IF i > Len(shapes) THEN <<>>
    ELSE YieldGroup(_get_group(shapes[i], family), tiles, constraints)
         \o YieldGroups(shapes, i + 1, family, tiles, constraints)

SequenceShapesNoSkipRun(current_tile, present) ==
    (IF current_tile + 1 \in present /\ current_tile + 2 \in present
     THEN <<(<<current_tile, current_tile + 1, current_tile + 2>>)>> ELSE <<>>)
    \o (IF current_tile + 1 \in present
        THEN <<(<<current_tile, current_tile + 1>>)>> ELSE <<>>)
    \o <<(<<current_tile>>)>>

\* find_sequences, lines 117-132: the shapes tried for current_tile
SequenceShapes(current_tile, present) ==
    (IF current_tile + 1 \in present /\ current_tile + 2 \in present
     THEN <<(<<current_tile, current_tile + 1, current_tile + 2>>)>> ELSE <<>>)
    \o (IF current_tile + 1 \in present
        THEN <<(<<current_tile, current_tile + 1>>)>> ELSE <<>>)
    \o (IF current_tile + 2 \in present
        THEN <<(<<current_tile, current_tile + 2>>)>> ELSE <<>>)
    \o <<(<<current_tile>>)>>

\* the loop of find_sequences over family_tiles_num[i..]; a number > 7 breaks it
RECURSIVE SequencesFrom(_, _, _, _, _)
SequencesFrom(family_tiles_num, i, family, tiles, constraints) ==
    IF i > Len(family_tiles_num) THEN <<>>
    ELSE IF family_tiles_num[i] > 7 THEN <<>>
    ELSE YieldGroups(SequenceShapes(family_tiles_num[i], Range(family_tiles_num)),
                     1, family, tiles, constraints)
         \o SequencesFrom(family_tiles_num, i + 1, family, tiles, constraints)

\* [tile.number for tile in get_tiles_from_family(tiles, family)]
FamilyNumbers(tiles, family) ==
    LET family_tiles == get_tiles_from_family(tiles, family)
    IN [i \in 1..Len(family_tiles) |-> family_tiles[i].number]

\* the outer loop of find_sequences over families[f..]
RECURSIVE SequencesOfFamilies(_, _, _, _)
SequencesOfFamilies(families, f, tiles, constraints) ==
    IF f > Len(families) THEN <<>>
    ELSE SequencesFrom(SortedNumbers(FamilyNumbers(tiles, families[f])), 1,
                       families[f], tiles, constraints)
         \o SequencesOfFamilies(families, f + 1, tiles, constraints)

find_sequences_of_all_families(tiles, constraints) ==
    SequencesOfFamilies(Family, 1, tiles, constraints)

\* find_sequences
find_sequences(tiles, constraints) ==
    SequencesOfFamilies(<<BAMBOO, CIRCLE, CHARACTER>>, 1, tiles, constraints)

\* the keys of Counter(numbers), in the order of their first occurrence
RECURSIVE CounterKeys(_)
CounterKeys(numbers) ==
    IF numbers = <<>> THEN <<>>
    ELSE LET before == CounterKeys(SubSeq(numbers, 1, Len(numbers) - 1))
             last == numbers[Len(numbers)]
         IN IF last \in Range(before) THEN before ELSE Append(before, last)

\* find_three_of_a_kind, lines 150-160: the shapes tried for current_tile
ThreeOfAKindShapes(current_tile, tile_count) ==
    (IF tile_count >= 3
     THEN <<(<<current_tile, current_tile, current_tile>>)>> ELSE <<>>)
    \o (IF tile_count >= 2 THEN <<(<<current_tile, current_tile>>)>> ELSE <<>>)
    \o <<(<<current_tile>>)>>

\* find_pair, lines 178-184: the shape tried for current_tile
PairShapes(current_tile, tile_count) ==
    IF tile_count >= 2
    THEN <<(<<current_tile, current_tile>>)>>
    ELSE <<(<<current_tile>>)>>

\* the shapes for one Counter item of find_three_of_a_kind or of find_pair
CountShapes(pairs_only, current_tile, tile_count) ==
    IF pairs_only THEN PairShapes(current_tile, tile_count)
    ELSE ThreeOfAKindShapes(current_tile, tile_count)

\* "for current_tile, tile_count in count.items()" over keys[i..]
RECURSIVE CountedFrom(_, _, _, _, _, _, _)
CountedFrom(pairs_only, keys, i, numbers, family, tiles, constraints) ==
    IF i > Len(keys) THEN <<>>
    ELSE YieldGroups(CountShapes(pairs_only, keys[i], ListCount(numbers, keys[i])),
                     1, family, tiles, constraints)
         \o CountedFrom(pairs_only, keys, i + 1, numbers, family, tiles, constraints)

\* "count = Counter(...)" and the loop over its items, for one family
CountedOfFamily(pairs_only, numbers, family, tiles, constraints) ==
    CountedFrom(pairs_only, CounterKeys(numbers), 1, numbers, family, tiles, constraints)

\* "for family in Family" of find_three_of_a_kind and find_pair, from Family[f]
RECURSIVE CountedOfFamilies(_, _, _, _)
CountedOfFamilies(pairs_only, f, tiles, constraints) ==
    IF f > Len(Family) THEN <<>>
    ELSE CountedOfFamily(pairs_only, FamilyNumbers(tiles, Family[f]), Family[f],
                         tiles, constraints)
         \o CountedOfFamilies(pairs_only, f + 1, tiles, constraints)

\* find_three_of_a_kind
find_three_of_a_kind(tiles, constraints) ==
    CountedOfFamilies(FALSE, 1, tiles, constraints)

\* find_pair
find_pair(tiles, constraints) == CountedOfFamilies(TRUE, 1, tiles, constraints)

-----------------------------------------------------------------------------
(* group_finder.py: the decomposition search.  The operators return a      *)
(* record: ret (the returned dict), cache (the memo after the call, which  *)
(* the code mutates in place), err (the exception raised, NoError when the *)
(* call returns) and enumerated (how many enumerator generators the call   *)
(* has consumed).                                                          *)

NoError == "NoError"
NotEnoughTiles == "AttributeError: Not enough tiles"
InvalidConstraints == "AttributeError: Constraints cannot be None or empty"
EmptyDict == [k \in {} |-> <<>>]

\* d.get(k, default) of a dict, also d[k] of a defaultdict
DictGet(d, k, default) == IF k \in DOMAIN d THEN d[k] ELSE default

\* d[k] = v
DictPut(d, k, v) == [x \in DOMAIN d \cup {k} |-> IF x = k THEN v ELSE d[x]]

\* sorted(groups) for a list of groups: a stable sort by the tuple order
RECURSIVE InsertGroup(_, _)
InsertGroup(sorted, group) ==
    IF sorted = <<>> THEN <<group>>
    ELSE IF GroupLt(group, Head(sorted)) THEN <<group>> \o sorted
    ELSE <<Head(sorted)>> \o InsertGroup(Tail(sorted), group)

RECURSIVE SortedGroups(_)
SortedGroups(groups) ==
    IF groups = <<>> THEN <<>>
    ELSE InsertGroup(SortedGroups(SubSeq(groups, 1, Len(groups) - 1)),
                     groups[Len(groups)])

\* merge_group_tuple
merge_group_tuple(group_tuple, new_group) ==
    SortedGroups(Append(group_tuple, new_group))

new_match_group_only(previous_context, found_group) == <<found_group>>

\* _find_group_and_recurse, line 236: the memo key of a candidate
new_match(previous_context, found_group) ==
    merge_group_tuple(previous_context, found_group)

\* lines 242-243: the candidate is filed under each constraint it respects
RECURSIVE FileLeaf(_, _, _, _)
FileLeaf(possible_combinations, respected_constraints, i, combination) ==
    IF i > Len(respected_constraints) THEN possible_combinations
    ELSE FileLeaf(
            DictPut(possible_combinations, respected_constraints[i],
                    Append(DictGet(possible_combinations, respected_constraints[i], <<>>),
                           combination)),
            respected_constraints, i + 1, combination)

\* lines 248-254 for one combination of the recursive result, already merged
\* with found_group: kept.list is possible_combinations[constraint] and
\* kept.smallest is smallest_leftovers[constraint]
KeepOne(kept, merged) ==
    IF Len(merged.residue) > kept.smallest THEN kept
    ELSE IF Len(merged.residue) < kept.smallest
         THEN [list |-> <<merged>>, smallest |-> Len(merged.residue)]
    ELSE [list |-> Append(kept.list, merged), smallest |-> kept.smallest]

\* "for best_group, res in combinations" (lines 247-254) over combinations[j..]
RECURSIVE KeepSmallest(_, _, _, _)
KeepSmallest(kept, combinations, j, found_group) ==
    IF j > Len(combinations) THEN kept
    ELSE KeepSmallest(
            KeepOne(kept,
                    [groups |-> merge_group_tuple(combinations[j].groups, found_group),
                     residue |-> combinations[j].residue]),
            combinations, j + 1, found_group)

\* the buckets after lines 245-254, given what KeepSmallest made of each
\* constraint of the recursive result
WithKept(acc, kept) ==
    [acc EXCEPT
       !.combos = [c \in DOMAIN acc.combos \cup {k \in DOMAIN kept : kept[k].list # <<>>} |->
                     IF c \in DOMAIN kept THEN kept[c].list ELSE acc.combos[c]],
       !.smallest = [c \in DOMAIN acc.smallest \cup DOMAIN kept |->
                     IF c \in DOMAIN kept THEN kept[c].smallest ELSE acc.smallest[c]]]

\* lines 245-254: the result of the recursive call merged into the buckets
MergeRecursion(acc, ret, found_group) ==
    WithKept(acc,
             [constraint \in {c \in DOMAIN ret : ret[c] # <<>>} |->
                 KeepSmallest([list |-> DictGet(acc.combos, constraint, <<>>),
                               smallest |-> DictGet(acc.smallest, constraint, 14)],
                              ret[constraint], 1, found_group)])

\* lines 245-254, sub being what the recursive call returned or raised
AfterRecursion(acc, sub, found_group) ==
    IF sub.err # NoError
    THEN [acc EXCEPT !.cache = sub.cache, !.err = sub.err,
                     !.enumerated = acc.enumerated + sub.enumerated]
    ELSE MergeRecursion([acc EXCEPT !.cache = sub.cache,
                                    !.enumerated = acc.enumerated + sub.enumerated],
                        sub.ret, found_group)

RECURSIVE _find_all_groups_for(_, _, _, _, _, _, _, _)

\* the body of the for loop of _find_group_and_recurse (lines 236-254) for one
\* candidate, match being its new_match; acc holds possible_combinations,
\* smallest_leftovers and the cache.  memo is FALSE for the search with the
\* check of lines 237-238 removed.
VisitCandidate(found, match, new_sequence, new_three_same, new_pair, acc, memo) ==
    IF memo /\ match \in acc.cache THEN acc
    ELSE IF new_sequence = 0 /\ new_three_same = 0 /\ new_pair = 0
    THEN [acc EXCEPT
            !.cache = acc.cache \cup {match},
            !.combos = FileLeaf(acc.combos, found.respected, 1,
                                [groups |-> <<found.group>>, residue |-> found.residue])]
    ELSE AfterRecursion(acc,
                        _find_all_groups_for(found.residue, new_sequence, new_three_same,
                                             new_pair, found.respected,
                                             acc.cache \cup {match}, match, memo),
                        found.group)

\* the for loop of _find_group_and_recurse from found_groups[i]; an exception
\* ends it
RECURSIVE RecurseFrom(_, _, _, _, _, _, _, _)
RecurseFrom(found_groups, i, new_sequence, new_three_same, new_pair, acc, previous_context, memo) ==
    IF i > Len(found_groups) \/ acc.err # NoError THEN acc
    ELSE RecurseFrom(found_groups, i + 1, new_sequence, new_three_same, new_pair,
                     VisitCandidate(found_groups[i],
                                    new_match(previous_context, found_groups[i].group),
                                    new_sequence, new_three_same, new_pair, acc, memo),
                     previous_context, memo)

\* "return dict(possible_combinations)"
Returned(acc) ==
    [ret |-> acc.combos, cache |-> acc.cache, err |-> acc.err,
     enumerated |-> acc.enumerated]

\* _find_group_and_recurse
_find_group_and_recurse(found_groups, new_sequence, new_three_same, new_pair, cache, previous_context, memo) ==
    Returned(RecurseFrom(found_groups, 1, new_sequence, new_three_same, new_pair,
                         [combos |-> EmptyDict, smallest |-> EmptyDict,
                          cache |-> cache, err |-> NoError, enumerated |-> 1],
                         previous_context, memo))

needed_tiles_no_pairs(sequence, three_same, pair) == 3 * (sequence + three_same)

\* _find_all_groups_for, line 261
needed_tiles(sequence, three_same, pair) == 3 * (sequence + three_same) + 2 * pair

\* _find_all_groups_for
_find_all_groups_for(tiles, sequence, three_same, pair, constraints, cache, previous_context, memo) ==
    IF Len(tiles) < needed_tiles(sequence, three_same, pair) - 1
    THEN [ret |-> EmptyDict, cache |-> cache, err |-> NotEnoughTiles, enumerated |-> 0]
    ELSE IF pair > 0
    THEN _find_group_and_recurse(find_pair(tiles, constraints),
                                 sequence, three_same, pair - 1,
                                 cache, previous_context, memo)
    ELSE IF sequence > 0
    THEN _find_group_and_recurse(find_sequences(tiles, constraints),
                                 sequence - 1, three_same, pair,
                                 cache, previous_context, memo)
    ELSE IF three_same > 0
    THEN _find_group_and_recurse(find_three_of_a_kind(tiles, constraints),
                                 sequence, three_same - 1, pair,
                                 cache, previous_context, memo)
    ELSE [ret |-> EmptyDict, cache |-> cache, err |-> NoError, enumerated |-> 0]

\* all_groups_for, line 201: "[Constraint.NONE]" of the returned dict, which
\* raises KeyError when the dict has no such key
NoneBucket(found) ==
    LET KeyErrorNone == "KeyError: Constraint.NONE"
    IN
    IF found.err # NoError
    THEN [value |-> <<>>, err |-> found.err, enumerated |-> found.enumerated]
    ELSE IF "NONE" \notin DOMAIN found.ret
    THEN [value |-> <<>>, err |-> KeyErrorNone, enumerated |-> found.enumerated]
    ELSE [value |-> found.ret["NONE"], err |-> NoError, enumerated |-> found.enumerated]

\* all_groups_for with the memo check on or removed
AllGroupsFor(tiles, sequence, three_same, pair, memo) ==
    NoneBucket(_find_all_groups_for(tiles, sequence, three_same, pair,
                                    <<"NONE">>, {}, <<>>, memo))

all_groups_for_without_memo(tiles, sequence, three_same, pair) == AllGroupsFor(tiles, sequence, three_same, pair, FALSE)

\* all_groups_for
all_groups_for(tiles, sequence, three_same, pair) ==
    AllGroupsFor(tiles, sequence, three_same, pair, TRUE)

FalsyNoneOnly(constraints) == constraints.none

\* "not constraints": the argument is None (absent) or an empty list
Falsy(constraints) == constraints.none \/ constraints.list = <<>>

\* what all_groups_for_with_constraints returns or raises, given the search
WholeDict(found) ==
    [value |-> found.ret, err |-> found.err, enumerated |-> found.enumerated]

\* all_groups_for_with_constraints with the memo check on or removed
AllGroupsForWithConstraints(tiles, sequence, three_same, pair, constraints, memo) ==
    IF Falsy(constraints)
    THEN [value |-> EmptyDict, err |-> InvalidConstraints, enumerated |-> 0]
    ELSE WholeDict(_find_all_groups_for(tiles, sequence, three_same, pair,
                                        constraints.list, {}, <<>>, memo))

\* all_groups_for_with_constraints
all_groups_for_with_constraints(tiles, sequence, three_same, pair, constraints) ==
    AllGroupsForWithConstraints(tiles, sequence, three_same, pair, constraints, TRUE)

SharedCache(left) == left

\* "set()" of lines 201 and 217: the cache a top-level call creates for its
\* search, left being the cache that the search of an earlier call filled
FreshCache(left) == {}

\* all_groups_for (lines 200-201) or all_groups_for_with_constraints (lines
\* 215-217) called with the arguments of c after an earlier call whose search
\* left the cache "left"
SearchAfter(left, c) ==
    IF c.fn = "all_groups_for"
    THEN NoneBucket(_find_all_groups_for(c.tiles, c.sequence, c.three_same, c.pair,
                                         <<"NONE">>, FreshCache(left), <<>>, TRUE))
    ELSE IF Falsy(c.constraints)
    THEN [value |-> EmptyDict, err |-> InvalidConstraints, enumerated |-> 0]
    ELSE WholeDict(_find_all_groups_for(c.tiles, c.sequence, c.three_same, c.pair,
                                        c.constraints.list, FreshCache(left), <<>>, TRUE))

\* the cache the search of the call c has filled when the call ends, the
\* call being made after one that left the cache "left"
CacheLeft(left, c) ==
    IF c.fn = "all_groups_for_with_constraints" /\ Falsy(c.constraints) THEN left
    ELSE _find_all_groups_for(c.tiles, c.sequence, c.three_same, c.pair,
                              IF c.fn = "all_groups_for" THEN <<"NONE">>
                              ELSE c.constraints.list,
                              FreshCache(left), <<>>, TRUE).cache

-----------------------------------------------------------------------------
(* tiles_utils.py (parse_tiles) and pattern_generator.py.  A string is the  *)
(* sequence of its characters.                                             *)

\* the literal "123456789" of `char in "123456789"`
Digits == <<"1", "2", "3", "4", "5", "6", "7", "8", "9">>

UpperCase ==
    <<"A", "B", "C", "D", "E", "F", "G", "H", "I", "J", "K", "L", "M",
      "N", "O", "P", "Q", "R", "S", "T", "U", "V", "W", "X", "Y", "Z">>

LowerCase ==
    <<"a", "b", "c", "d", "e", "f", "g", "h", "i", "j", "k", "l", "m",
      "n", "o", "p", "q", "r", "s", "t", "u", "v", "w", "x", "y", "z">>

\* int(char) of a digit of "123456789"
int(char) == CHOOSE n \in DOMAIN Digits : Digits[n] = char

\* ord(char) of an upper case letter
ord(char) == 64 + (CHOOSE n \in DOMAIN UpperCase : UpperCase[n] = char)

isupper(char) == char \in Range(UpperCase)

islower(char) == char \in Range(LowerCase)

\* str.lower()
lower(string) ==
    \* str.lower() of one character
    LET LowerChar(char) ==
            IF isupper(char) THEN LowerCase[ord(char) - 64] ELSE char
    IN
    [i \in DOMAIN string |-> LowerChar(string[i])]

\* str(n) of an integer
RECURSIVE str(_)
str(n) ==
    IF n < 0 THEN <<"-">> \o str(-n)
    ELSE IF n >= 10 THEN str(n \div 10) \o str(n % 10)
    ELSE IF n = 0 THEN <<"0">>
    ELSE <<Digits[n]>>

UnknownCharacter == "AttributeError: Unknown character"

MissingFamily == "AttributeError: Missing family denomination"

MisplacedCharacter == "AttributeError: Misplaced or unknown character"

\* parse_tiles, lines 40-51: the loop from character i on and the check
\* after it
RECURSIVE ParseFrom(_, _, _, _)
ParseFrom(tiles, i, current_numbers, parsed) ==
    IF i > Len(tiles)
    THEN IF current_numbers # <<>>
         THEN [value |-> <<>>, err |-> MissingFamily]
         ELSE [value |-> parsed, err |-> NoError]
    ELSE IF tiles[i] \in Range(Digits)
    THEN ParseFrom(tiles, i + 1, Append(current_numbers, int(tiles[i])), parsed)
    ELSE IF tiles[i] \in Range(Family)
    THEN ParseFrom(tiles, i + 1, <<>>,
                   parsed \o [k \in DOMAIN current_numbers |->
                                 MahjongTile(current_numbers[k], tiles[i])])
    ELSE [value |-> <<>>, err |-> UnknownCharacter]

\* the string without the digits after its last other character
RECURSIVE WithoutLastNumbers(_)
WithoutLastNumbers(tiles) ==
    IF tiles = <<>> THEN <<>>
    ELSE IF tiles[Len(tiles)] \in Range(Digits)
    THEN WithoutLastNumbers(SubSeq(tiles, 1, Len(tiles) - 1))
    ELSE tiles

parse_tiles_unchecked(tiles) == ParseFrom(WithoutLastNumbers(tiles), 1, <<>>, <<>>)

parse_tiles(tiles) == ParseFrom(tiles, 1, <<>>, <<>>)

\* MahjongTile.__str__
MahjongTile__str__(self) == str(self.number) \o <<self.family>>

\* MahjongTile.__init__ with a string: int(tile[0]) and Family(tile[1])
MahjongTile__init__(tile) ==
    IF tile = <<>> THEN [value |-> MahjongTile(-1, "None"), err |-> NoError]
    ELSE IF tile[1] \notin Range(Digits) \cup {"0"}
    THEN [value |-> <<>>, err |-> "ValueError: invalid literal for int()"]
    ELSE IF Len(tile) < 2
    THEN [value |-> <<>>, err |-> "IndexError: string index out of range"]
    ELSE IF tile[2] \notin Range(Family)
    THEN [value |-> <<>>, err |-> "ValueError: not a valid Family"]
    ELSE [value |-> MahjongTile(IF tile[1] = "0" THEN 0 ELSE int(tile[1]), tile[2]),
          err |-> NoError]

\* "".join(str(t) for t in numbers)
RECURSIVE JoinNumbers(_)
JoinNumbers(numbers) ==
    IF numbers = <<>> THEN <<>>
    ELSE str(Head(numbers)) \o JoinNumbers(Tail(numbers))

FamilyRepOfDistinct(hand_tiles, family) ==
    IF FamilyNumbers(hand_tiles, family) # <<>>
    THEN JoinNumbers(CounterKeys(SortedNumbers(FamilyNumbers(hand_tiles, family))))
         \o <<family>>
    ELSE <<>>

\* MahjongHand.__str__, lines 204-206: what one family adds to rep
FamilyRep(hand_tiles, family) ==
    IF FamilyNumbers(hand_tiles, family) # <<>>
    THEN JoinNumbers(SortedNumbers(FamilyNumbers(hand_tiles, family))) \o <<family>>
    ELSE <<>>

\* MahjongHand.__str__: the loop "for family in Family" from Family[f] on
RECURSIVE RepFrom(_, _)
RepFrom(hand_tiles, f) ==
    IF f > Len(Family) THEN <<>>
    ELSE FamilyRep(hand_tiles, Family[f]) \o RepFrom(hand_tiles, f + 1)

MahjongHand__str__(hand_tiles) == RepFrom(hand_tiles, 1)

\* what a generator yields before it ends or raises
NoPatterns == [value |-> <<>>, err |-> NoError]

\* `yield from` one iterator, then what follows it
Chain(first, then) ==
    IF first.err # NoError THEN first
    ELSE [value |-> first.value \o then.value, err |-> then.err]

\* min() and max() of a string of upper case letters
MinWildcard(wildcards) ==
    CHOOSE c \in Range(wildcards) : \A d \in Range(wildcards) : ord(c) <= ord(d)

MaxWildcard(wildcards) ==
    CHOOSE c \in Range(wildcards) : \A d \in Range(wildcards) : ord(c) >= ord(d)

\* the loops of lines 51-55 and 64-68 from wildcard i on: the digits that
\* replace the wildcards, and the number wildcards with the new ones
RECURSIVE ReplaceWildcards(_, _, _, _, _)
ReplaceWildcards(wildcards, i, number_wildcards, min_wildcard, shift) ==
    IF i > Len(wildcards)
    THEN [replaced |-> <<>>, number_wildcards |-> number_wildcards]
    ELSE LET wildcard == wildcards[i]
             known == DictPut(number_wildcards, wildcard,
                              DictGet(number_wildcards, wildcard,
                                      ord(wildcard) - ord(min_wildcard) + shift))
             rest == ReplaceWildcards(wildcards, i + 1, known, min_wildcard, shift)
         IN [replaced |-> str(known[wildcard]) \o rest.replaced,
             number_wildcards |-> rest.number_wildcards]

RECURSIVE _pattern_generator(_, _, _, _, _)

\* lines 56-57 and 69-70: the recursive generator made for one replacement
\* of the number wildcards
GenerateReplaced(parsed, to_parse, family_wildcards, idx, character, replacement, order) ==
    _pattern_generator(parsed \o replacement.replaced \o <<character>>,
                       SubSeq(to_parse, idx + 1, Len(to_parse)),
                       family_wildcards, replacement.number_wildcards, order)

\* _pattern_resolve_number_wildcards, lines 59-71: the iterators of the
\* shifts from shift on, chained
RECURSIVE ShiftsFrom(_, _, _, _, _, _, _, _, _)
ShiftsFrom(shift, max_shift, parsed, to_parse, family_wildcards, global_wildcard_parse, idx, character, order) ==
    IF shift >= max_shift THEN NoPatterns
    ELSE Chain(GenerateReplaced(parsed, to_parse, family_wildcards, idx, character,
                                ReplaceWildcards(global_wildcard_parse, 1, EmptyDict,
                                                 MinWildcard(global_wildcard_parse), shift),
                                order),
               ShiftsFrom(shift + 1, max_shift, parsed, to_parse, family_wildcards,
                          global_wildcard_parse, idx, character, order))

\* _pattern_resolve_number_wildcards, lines 37-57: the wildcards follow the
\* number wildcards already given
FollowGiven(parsed, to_parse, family_wildcards, number_wildcards, global_wildcard_parse, idx, character, order) ==
    LET min_wildcard == MinWildcard(global_wildcard_parse)
        max_wildcard == MaxWildcard(global_wildcard_parse)
        given_min == CHOOSE c \in DOMAIN number_wildcards :
                        \A d \in DOMAIN number_wildcards : ord(c) <= ord(d)
        given_shift == ord(min_wildcard) - ord(given_min) + number_wildcards[given_min]
        new_number_wildcards ==
            DictPut(number_wildcards, min_wildcard,
                    DictGet(number_wildcards, min_wildcard, given_shift))
        shift == new_number_wildcards[min_wildcard]
        max_wildcard_value == ord(max_wildcard) - ord(min_wildcard) + shift
    IN IF min_wildcard \notin DOMAIN number_wildcards
          /\ (given_shift < 1 \/ given_shift > 9)
       THEN NoPatterns
       ELSE IF max_wildcard_value > 9 THEN NoPatterns
       ELSE GenerateReplaced(parsed, to_parse, family_wildcards, idx, character,
                             ReplaceWildcards(global_wildcard_parse, 1,
                                              DictPut(new_number_wildcards, max_wildcard,
                                                      max_wildcard_value),
                                              min_wildcard, shift),
                             order)

_pattern_resolve_number_wildcards_one_shift_less(parsed, to_parse, family_wildcards, number_wildcards, global_wildcard_parse, idx, character, order) ==
    IF DOMAIN number_wildcards # {}
    THEN FollowGiven(parsed, to_parse, family_wildcards, number_wildcards,
                     global_wildcard_parse, idx, character, order)
    ELSE ShiftsFrom(1, 9 - (ord(MaxWildcard(global_wildcard_parse))
                            - ord(MinWildcard(global_wildcard_parse))),
                    parsed, to_parse, family_wildcards, global_wildcard_parse,
                    idx, character, order)

_pattern_resolve_number_wildcards(parsed, to_parse, family_wildcards, number_wildcards, global_wildcard_parse, idx, character, order) ==
    IF DOMAIN number_wildcards # {}
    THEN FollowGiven(parsed, to_parse, family_wildcards, number_wildcards,
                     global_wildcard_parse, idx, character, order)
    ELSE ShiftsFrom(1, 10 - (ord(MaxWildcard(global_wildcard_parse))
                             - ord(MinWildcard(global_wildcard_parse))),
                    parsed, to_parse, family_wildcards, global_wildcard_parse,
                    idx, character, order)

\* lines 76-82 and 90-97: the recursive generator made for one family
GenerateFamily(parsed, to_parse, family_wildcards, number_wildcards, currently_parsed, global_wildcard_parse, idx, family, order) ==
    _pattern_generator(
        IF currently_parsed # <<>> THEN parsed \o currently_parsed \o <<family>>
        ELSE parsed,
        IF global_wildcard_parse # <<>>
        THEN global_wildcard_parse \o <<family>> \o SubSeq(to_parse, idx + 1, Len(to_parse))
        ELSE SubSeq(to_parse, idx + 1, Len(to_parse)),
        family_wildcards, number_wildcards, order)

\* _pattern_resolve_family_wildcard, lines 86-98: the iterators of the
\* available families from the i-th on, chained
RECURSIVE FamiliesFrom(_, _, _, _, _, _, _, _, _, _, _)
FamiliesFrom(available_families, i, parsed, to_parse, family_wildcards, number_wildcards, currently_parsed, global_wildcard_parse, idx, character, order) ==
    IF i > Len(available_families) THEN NoPatterns
    ELSE Chain(GenerateFamily(parsed, to_parse,
                              DictPut(family_wildcards, character, available_families[i]),
                              number_wildcards, currently_parsed, global_wildcard_parse,
                              idx, available_families[i], order),
               FamiliesFrom(available_families, i + 1, parsed, to_parse, family_wildcards,
                            number_wildcards, currently_parsed, global_wildcard_parse,
                            idx, character, order))

\* _pattern_resolve_family_wildcard; the families of lines 84-85 are tried
\* in "order", the order in which the interpreter iterates the set
\* {CHARACTER, CIRCLE, BAMBOO}
_pattern_resolve_family_wildcard(parsed, to_parse, family_wildcards, number_wildcards, currently_parsed, global_wildcard_parse, idx, character, order) ==
    IF character \in DOMAIN family_wildcards
    THEN GenerateFamily(parsed, to_parse, family_wildcards, number_wildcards,
                        currently_parsed, global_wildcard_parse, idx,
                        family_wildcards[character], order)
    ELSE FamiliesFrom(SelectSeq(order, LAMBDA family : family \notin Range(family_wildcards)),
                      1, parsed, to_parse,
                      family_wildcards, number_wildcards, currently_parsed,
                      global_wildcard_parse, idx, character, order)

\* _pattern_generator, lines 103-127: the loop from character idx on and the
\* yield after it
RECURSIVE PatternFrom(_, _, _, _, _, _, _, _)
PatternFrom(parsed, to_parse, family_wildcards, number_wildcards, order, idx, currently_parsed, global_wildcard_parse) ==
    IF idx > Len(to_parse)
    THEN [value |-> IF parsed \o currently_parsed # <<>>
                    THEN <<parsed \o currently_parsed>> ELSE <<>>,
          err |-> NoError]
    ELSE IF to_parse[idx] \in Range(Digits)
    THEN PatternFrom(parsed, to_parse, family_wildcards, number_wildcards, order, idx + 1,
                     Append(currently_parsed, to_parse[idx]), global_wildcard_parse)
    ELSE IF to_parse[idx] \in Range(Family)
    THEN IF global_wildcard_parse # <<>>
         THEN _pattern_resolve_number_wildcards(parsed, to_parse, family_wildcards,
                                                number_wildcards, global_wildcard_parse,
                                                idx, to_parse[idx], order)
         ELSE PatternFrom(parsed, to_parse, family_wildcards, number_wildcards, order,
                          idx + 1, Append(currently_parsed, to_parse[idx]),
                          global_wildcard_parse)
    ELSE IF isupper(to_parse[idx])
    THEN PatternFrom(parsed, to_parse, family_wildcards, number_wildcards, order, idx + 1,
                     currently_parsed, Append(global_wildcard_parse, to_parse[idx]))
    ELSE IF islower(to_parse[idx])
    THEN _pattern_resolve_family_wildcard(parsed, to_parse, family_wildcards,
                                          number_wildcards, currently_parsed,
                                          global_wildcard_parse, idx, to_parse[idx], order)
    ELSE [value |-> <<>>, err |-> MisplacedCharacter]

_pattern_generator(parsed, to_parse, family_wildcards, number_wildcards, order) ==
    PatternFrom(parsed, to_parse, family_wildcards, number_wildcards, order, 1, <<>>, <<>>)

pattern_generator_with_parsed(input_pattern, order) ==
    _pattern_generator(input_pattern, input_pattern, EmptyDict, EmptyDict, order)

pattern_generator(input_pattern, order) ==
    _pattern_generator(<<>>, input_pattern, EmptyDict, EmptyDict, order)

-----------------------------------------------------------------------------
(* mahjong_objects.py (MahjongHand) and tile_acceptance_calculator.py: the  *)
(* analysis of a hand through its pattern hand types.                      *)

\* "for tile in tiles: if tile in current: current.remove(tile)" from tile i on
RECURSIVE RemoveFound(_, _, _)
RemoveFound(current, tiles, i) ==
    IF i > Len(tiles) THEN current
    ELSE RemoveFound(ListRemove(current, tiles[i]), tiles, i + 1)

\* MahjongHand.get_missing_tiles: the loop from tile i on
RECURSIVE MissingFrom(_, _, _)
MissingFrom(current_hand, tiles, i) ==
    IF i > Len(tiles) THEN <<>>
    ELSE IF tiles[i] \in Range(current_hand)
    THEN MissingFrom(ListRemove(current_hand, tiles[i]), tiles, i + 1)
    ELSE <<tiles[i]>> \o MissingFrom(current_hand, tiles, i + 1)

get_missing_tiles(hand_tiles, tiles) == MissingFrom(hand_tiles, tiles, 1)

get_residue_after(hand_tiles, tiles) == RemoveFound(hand_tiles, tiles, 1)

\* _get_read_groups_from_full_groups, lines 45-48: the tiles of a group
\* found in tiles_left, from tile i on, and the tiles left after them
RECURSIVE ReadTiles(_, _, _)
ReadTiles(tiles_left, group, i) ==
    IF i > Len(group) THEN [new_group |-> <<>>, tiles_left |-> tiles_left]
    ELSE IF group[i] \in Range(tiles_left)
    THEN LET rest == ReadTiles(ListRemove(tiles_left, group[i]), group, i + 1)
         IN [new_group |-> <<group[i]>> \o rest.new_group, tiles_left |-> rest.tiles_left]
    ELSE ReadTiles(tiles_left, group, i + 1)

RECURSIVE ReadGroups(_, _, _)
ReadGroups(tiles_left, groups, i) ==
    IF i > Len(groups) THEN <<>>
    ELSE LET read == ReadTiles(tiles_left, groups[i], 1)
         IN <<read.new_group>> \o ReadGroups(read.tiles_left, groups, i + 1)

_get_read_groups_from_full_groups(hand_tiles, groups) == ReadGroups(hand_tiles, groups, 1)

_get_read_groups_from_combi_tiles(hand_tiles, full_combination) ==
    \* list[from - 1:to] of the source, which stops at the end of the list
    LET Slice(list, from, to) == SubSeq(list, from, IF to < Len(list) THEN to ELSE Len(list))
    IN
    _get_read_groups_from_full_groups(
        hand_tiles,
        <<Slice(full_combination, 1, 3), Slice(full_combination, 4, 6),
          Slice(full_combination, 7, Len(full_combination))>>)

_is_pair(group) == Len(group) = 2 /\ group[1] = group[2]

GroupAcceptanceOfLoneTileOnly(group, number_of_pairs) ==
    IF Len(group) = 3 THEN {}
    ELSE IF Len(group) = 2
    THEN IF _is_pair(group) /\ number_of_pairs = 1 THEN {}
         ELSE find_simple_waits_for_two_tiles(group)
    ELSE IF Len(group) = 0 THEN {}
    ELSE {group[1]}

\* _get_tile_acceptance_of_groups, lines 277-296: what one group adds
GroupAcceptance(group, number_of_pairs) ==
    IF Len(group) = 3 THEN {}
    ELSE IF Len(group) = 2
    THEN IF _is_pair(group) /\ number_of_pairs = 1 THEN {}
         ELSE find_simple_waits_for_two_tiles(group)
    ELSE IF Len(group) = 0 THEN {}
    ELSE IF number_of_pairs > 0
    THEN IF group[1].family = HONOR THEN {group[1]}
         ELSE {MahjongTile(group[1].number + neighbour, group[1].family) :
                  neighbour \in {n \in (-2)..2 : 1 <= group[1].number + n
                                                 /\ group[1].number + n <= 9}}
    ELSE {group[1]}

_get_tile_acceptance_of_groups(groups) ==
    UNION {GroupAcceptance(groups[i],
                           Cardinality({j \in DOMAIN groups : _is_pair(groups[j])})) :
              i \in DOMAIN groups}

_can_construct_one_group_one_pair(tiles) ==
    \* _can_construct_one_group_one_pair, given what its two searches return
    LET OneGroupOnePair(with_three_same, with_sequence) ==
            \* _can_construct_one_group_one_pair, lines 334-339
            LET GroupsToReturn(best_groups) ==
                    LET real_shanten ==
                            CHOOSE n \in {Len(best_groups[i].residue) : i \in DOMAIN best_groups} :
                                \A i \in DOMAIN best_groups : n <= Len(best_groups[i].residue)
                    IN [shanten |-> real_shanten,
                        result |-> SelectSeq(best_groups, LAMBDA c : Len(c.residue) = real_shanten),
                        err |-> NoError]
            \* a function of the calculator that raised
                Raised(err) == [shanten |-> 0, result |-> <<>>, err |-> err]
                ValueErrorMin == "ValueError: min() arg is an empty sequence"
            IN
            IF with_three_same.err # NoError THEN Raised(with_three_same.err)
            ELSE IF with_sequence.err # NoError THEN Raised(with_sequence.err)
            ELSE IF with_three_same.value \o with_sequence.value = <<>> THEN Raised(ValueErrorMin)
            ELSE GroupsToReturn(with_three_same.value \o with_sequence.value)
    IN
    OneGroupOnePair(all_groups_for(tiles, 0, 1, 1), all_groups_for(tiles, 1, 0, 1))

RECURSIVE PatternsFrom(_, _, _, _)

\* _can_construct_with_3_group_pattern, lines 254-261, and the next patterns
KeepBest(hand_tiles, patterns, i, best, orig_combi, missing, found) ==
    IF found.err # NoError THEN [best EXCEPT !.err = found.err]
    ELSE PatternsFrom(hand_tiles, patterns, i + 1,
                      IF found.shanten < best.shanten
                      THEN [shanten |-> found.shanten, result |-> found.result,
                            combi |-> _get_read_groups_from_combi_tiles(
                                          RemoveFound(orig_combi, missing, 1), orig_combi),
                            acceptance |-> missing, err |-> NoError]
                      ELSE best)

\* lines 250-256 for one pattern
TryPattern(hand_tiles, patterns, i, best, orig_combi) ==
    IF orig_combi.err # NoError THEN [best EXCEPT !.err = orig_combi.err]
    ELSE KeepBest(hand_tiles, patterns, i, best, orig_combi.value,
                  get_missing_tiles(hand_tiles, orig_combi.value),
                  _can_construct_one_group_one_pair(
                      get_residue_after(hand_tiles, orig_combi.value)))

\* the loop of line 249 from the i-th pattern on
PatternsFrom(hand_tiles, patterns, i, best) ==
    IF i > Len(patterns.value)
    THEN [best EXCEPT !.err = patterns.err]
    ELSE TryPattern(hand_tiles, patterns, i, best, parse_tiles(patterns.value[i]))

\* lines 262-267: what the function returns, given the best of the loop
BestToReturn(best) ==
    IF best.err # NoError THEN [result |-> <<>>, acceptance |-> {}, err |-> best.err]
    ELSE [result |-> [i \in DOMAIN best.result |->
                         [groups |-> best.combi \o best.result[i].groups,
                          residue |-> best.result[i].residue]],
          acceptance |-> Range(best.acceptance)
                         \cup UNION {_get_tile_acceptance_of_groups(best.result[i].groups) :
                                        i \in DOMAIN best.result},
          err |-> NoError]

_can_construct_with_3_group_pattern(hand_tiles, input_pattern, order) ==
    \* best_shanten, best_result, best_combi and best_acceptance of lines 244-247
    LET NoBest == [shanten |-> 13, result |-> <<>>, combi |-> <<>>, acceptance |-> <<>>,
                   err |-> NoError]
    IN
    BestToReturn(PatternsFrom(hand_tiles, pattern_generator(input_pattern, order), 1, NoBest))

\* _can_construct_hand_type for a pattern hand type, with its pattern
_can_construct_hand_type(hand_type, hand_tiles, order) ==
    LET input_pattern ==
            CASE hand_type = "Mixed Shifted" ->
                    <<"A", "B", "C", "a", "B", "C", "D", "b", "C", "D", "E", "c">>
              [] hand_type = "Mixed Straight" ->
                    <<"1", "2", "3", "a", "4", "5", "6", "b", "7", "8", "9", "c">>
              [] hand_type = "Triple Chows" ->
                    <<"A", "B", "C", "a", "A", "B", "C", "b", "A", "B", "C", "c">>
              [] hand_type = "Pure Shifted" ->
                    <<"A", "B", "C", "C", "D", "E", "E", "F", "G", "a">>
              [] hand_type = "Pure Straight" ->
                    <<"1", "2", "3", "4", "5", "6", "7", "8", "9", "a">>
    IN _can_construct_with_3_group_pattern(hand_tiles, input_pattern, order)

\* what a call of all_groups_for_with_constraints raises: the check of its
\* constraints (lines 215-216), then the size check of _find_all_groups_for
\* (lines 261-263); the recursion raises nothing more
RaisedBySearch(tiles, sequence, three_same, pair, constraints) ==
    IF Falsy(constraints) THEN InvalidConstraints
    ELSE IF Len(tiles) < needed_tiles(sequence, three_same, pair) - 1 THEN NotEnoughTiles
    ELSE NoError

\* _precompute_constraints: what the loop raises from nb_seq on
RECURSIVE PrecomputeRaises(_, _)
PrecomputeRaises(hand_tiles, nb_seq) ==
    \* the constraints of _precompute_constraints
    LET PrecomputedConstraints ==
            [none |-> FALSE,
             list |-> <<"FLUSH_CHARACTER", "FLUSH_CIRCLE", "FLUSH_BAMBOO",
                        "FIRST_FOUR", "LAST_FOUR", "SYMMETRIC">>]
    IN
    IF nb_seq >= 5 THEN NoError
    ELSE IF RaisedBySearch(hand_tiles, nb_seq, 4 - nb_seq, 1, PrecomputedConstraints) # NoError
    THEN RaisedBySearch(hand_tiles, nb_seq, 4 - nb_seq, 1, PrecomputedConstraints)
    ELSE PrecomputeRaises(hand_tiles, nb_seq + 1)

\* the lists of a list, one after the other: the tiles that nested for loops
\* or itertools.chain visit
RECURSIVE Flatten(_)
Flatten(lists) ==
    IF lists = <<>> THEN <<>> ELSE Head(lists) \o Flatten(Tail(lists))

\* sorted(most_useless_tiles, key=lambda tile: abs(5 - tile.number)), a
\* stable sort
RECURSIVE SortedByKey(_)
SortedByKey(tiles) ==
    IF tiles = <<>> THEN <<>>
    ELSE LET key(tile) == IF 5 - tile.number < 0 THEN tile.number - 5 ELSE 5 - tile.number
             before == SortedByKey(SubSeq(tiles, 1, Len(tiles) - 1))
             last == tiles[Len(tiles)]
             smaller == SelectSeq(before, LAMBDA tile : key(tile) <= key(last))
             larger == SelectSeq(before, LAMBDA tile : key(tile) > key(last))
         IN smaller \o <<last>> \o larger

_get_most_useless_tile_from_first(most_useless_tiles) == most_useless_tiles[1]

\* _get_most_useless_tile_from
_get_most_useless_tile_from(most_useless_tiles) ==
    LET honors == get_tiles_from_family(most_useless_tiles, HONOR)
    IN IF honors # <<>> THEN honors[1]
       ELSE SortedByKey(most_useless_tiles)[Len(most_useless_tiles)]

\* _print_best_discard_choice: the text is the list of its pieces
_print_best_discard_choice(best_results, results) ==
    LET counted ==
            Flatten([b \in DOMAIN best_results |->
                        Flatten([i \in DOMAIN results[best_results[b]] |->
                                    results[best_results[b]][i].residue])])
        tile_count == [tile \in Range(counted) |-> ListCount(counted, tile)]
        highest_count ==
            CHOOSE n \in Range(tile_count) : \A tile \in DOMAIN tile_count : tile_count[tile] <= n
        most_useless_tiles ==
            SelectSeq(CounterKeys(counted), LAMBDA tile : tile_count[tile] = highest_count)
    IN IF counted = <<>> THEN <<"\n">>
       ELSE <<"Tile to discard next: ">>
            \o MahjongTile__str__(_get_most_useless_tile_from(most_useless_tiles))
            \o <<"\n">>

\* separator.join(items), each text the list of its pieces
RECURSIVE Join(_, _)
Join(items, separator) ==
    IF items = <<>> THEN <<>>
    ELSE IF Len(items) = 1 THEN items[1]
    ELSE items[1] \o separator \o Join(Tail(items), separator)

\* str(res) of a combination: a tuple of the tuple of groups, themselves
\* tuples of tiles, and of the list of leftover tiles; the repr of a tuple of
\* one item ends with a comma
str_combination(res) ==
    LET tuple__repr__(items) ==
            <<"(">> \o Join(items, <<", ">>)
                   \o (IF Len(items) = 1 THEN <<",">> ELSE <<>>) \o <<")">>
        tiles__repr__(tiles) == [i \in DOMAIN tiles |-> MahjongTile__str__(tiles[i])]
        groups == tuple__repr__([g \in DOMAIN res.groups |->
                                    tuple__repr__(tiles__repr__(res.groups[g]))])
        residue == <<"[">> \o Join(tiles__repr__(res.residue), <<", ">>) \o <<"]">>
    IN tuple__repr__(<<groups, residue>>)

\* _print_shanten
_print_shanten(best_groups) ==
    LET real_shanten ==
            CHOOSE n \in {Len(best_groups[i].residue) : i \in DOMAIN best_groups} :
                \A i \in DOMAIN best_groups : n <= Len(best_groups[i].residue)
        nb_tiles == Len(Flatten(best_groups[1].groups)) + Len(best_groups[1].residue)
        to_discard == nb_tiles - 13
    IN IF nb_tiles = 13
       THEN str(real_shanten) \o <<" away (">> \o str(Len(best_groups))
               \o <<" results)", "\n">>
       ELSE str(real_shanten - to_discard) \o <<" away with ">> \o str(to_discard)
               \o <<" tile to discard (">> \o str(Len(best_groups)) \o <<" results)", "\n">>

\* _print_result: the loop keeps, in nice_groups, the combinations with the
\* fewest groups of at most one tile (fewer than 11 of them)
_print_result(best_groups) ==
    LET lone_tile_groups(possible_hand) ==
            Len(SelectSeq(possible_hand.groups, LAMBDA group : Len(group) <= 1))
        RECURSIVE loop(_, _, _)
        loop(i, lone_tile_groups_nb, nice_groups) ==
            IF i > Len(best_groups) THEN nice_groups
            ELSE IF lone_tile_groups(best_groups[i]) > lone_tile_groups_nb
            THEN loop(i + 1, lone_tile_groups_nb, nice_groups)
            ELSE IF lone_tile_groups(best_groups[i]) < lone_tile_groups_nb
            THEN loop(i + 1, lone_tile_groups(best_groups[i]), <<best_groups[i]>>)
            ELSE loop(i + 1, lone_tile_groups_nb, Append(nice_groups, best_groups[i]))
        nice_groups == loop(1, 10, <<>>)
        lines(groups) == Join([i \in DOMAIN groups |-> str_combination(groups[i])], <<"\n">>)
    IN IF best_groups = <<>> THEN <<"Too far away">>
       ELSE IF Len(best_groups) < 10
       THEN _print_shanten(best_groups) \o lines(best_groups) \o <<"\n">>
       ELSE _print_shanten(best_groups)
               \o lines(SubSeq(nice_groups, 1, IF Len(nice_groups) > 10 THEN 10
                                                 ELSE Len(nice_groups)))
               \o <<"\n", "...", "\n">>

\* _get_full_tile_acceptance; other_acceptance is {} and allowed_tiles <<>>
\* when the argument is None
_get_full_tile_acceptance(tiles_in_hand, combinations, other_acceptance, allowed_tiles) ==
    LET of_groups ==
            other_acceptance
            \cup UNION {_get_tile_acceptance_of_groups(combinations[i].groups) :
                          i \in DOMAIN combinations}
        has_empty_group ==
            \E i \in DOMAIN combinations :
                \E g \in DOMAIN combinations[i].groups : Len(combinations[i].groups[g]) = 0
        of_empty_group ==
            IF allowed_tiles # <<>> /\ has_empty_group
            THEN {tile \in Range(allowed_tiles) :
                     /\ tile \notin of_groups
                     /\ ListCount(tiles_in_hand, tile) < (IF tile.family = HONOR THEN 2 ELSE 4)}
            ELSE {}
    IN IF allowed_tiles # <<>>
       THEN (of_groups \cup of_empty_group) \cap Range(allowed_tiles)
       ELSE of_groups \cup of_empty_group

\* _find_groups_and_concatenate: good_groups are the proto-groups found with
\* the smallest leftover, of at most 13 tiles
_find_groups_and_concatenate(tiles, concatenated_results, all_valid_tiles, acceptance) ==
    LET found == find_sequences(tiles, <<"NONE">>) \o find_three_of_a_kind(tiles, <<"NONE">>)
        smallest_residue_length ==
            CHOOSE n \in {13} \cup {Len(found[i].residue) : i \in DOMAIN found} :
                n <= 13 /\ \A i \in DOMAIN found : n <= Len(found[i].residue)
        kept == SelectSeq(found, LAMBDA y : Len(y.residue) = smallest_residue_length)
        good_groups ==
            IF tiles = <<>> THEN <<[groups |-> <<(<<>>)>>, residue |-> tiles]>>
            ELSE [i \in DOMAIN kept |-> [groups |-> <<kept[i].group>>,
                                         residue |-> kept[i].residue]]
        new_acceptance ==
            _get_full_tile_acceptance(tiles, good_groups, acceptance, all_valid_tiles)
    IN IF concatenated_results = <<>>
       THEN [results |-> good_groups, acceptance |-> new_acceptance]
       ELSE [results |->
                Flatten([g \in DOMAIN good_groups |->
                            [c \in DOMAIN concatenated_results |->
                                [groups |-> merge_group_tuple(concatenated_results[c].groups,
                                                              good_groups[g].groups[1]),
                                 residue |-> concatenated_results[c].residue
                                             \o good_groups[g].residue]]]),
             acceptance |-> new_acceptance]

\* _can_construct_all_types: the tiles of the hand and the valid tiles of
\* the five blocks, in the order of the calls
AllTypesBlocks(hand_tiles) ==
    LET suit(family) == [tiles |-> get_tiles_from_family(hand_tiles, family),
                         all_valid_tiles |-> _get_group(<<1, 2, 3, 4, 5, 6, 7, 8, 9>>, family)]
        tiles == get_tiles_from_family(hand_tiles, HONOR)
    IN <<suit(CIRCLE), suit(CHARACTER), suit(BAMBOO),
         [tiles |-> SelectSeq(tiles, LAMBDA tile : 1 <= tile.number /\ tile.number <= 4),
          all_valid_tiles |-> _get_group(<<1, 2, 3, 4>>, HONOR)],
         [tiles |-> SelectSeq(tiles, LAMBDA tile : 5 <= tile.number /\ tile.number <= 7),
          all_valid_tiles |-> _get_group(<<5, 6, 7>>, HONOR)]>>

\* _can_construct_all_types
_can_construct_all_types(hand_tiles) ==
    LET RECURSIVE after(_)
        after(b) ==
            IF b = 0 THEN [results |-> <<>>, acceptance |-> {}]
            ELSE _find_groups_and_concatenate(
                     AllTypesBlocks(hand_tiles)[b].tiles, after(b - 1).results,
                     AllTypesBlocks(hand_tiles)[b].all_valid_tiles, after(b - 1).acceptance)
    IN after(5)

\* _get_best_groups_from_multiple_constraints: the loop over the
\* constraints, in their order, from the c-th on
_get_best_groups_from_multiple_constraints(constraints, precomputed) ==
    LET real_shanten(combinations) ==
            CHOOSE n \in {Len(combinations[i].residue) : i \in DOMAIN combinations} :
                \A i \in DOMAIN combinations : n <= Len(combinations[i].residue)
        RECURSIVE loop(_, _, _)
        loop(c, best_shanten, best_groups) ==
            IF c > Len(constraints) THEN best_groups
            ELSE IF precomputed[constraints[c]] = <<>>
            THEN loop(c + 1, best_shanten, best_groups)
            ELSE IF real_shanten(precomputed[constraints[c]]) > best_shanten
            THEN loop(c + 1, best_shanten, best_groups)
            ELSE loop(c + 1, real_shanten(precomputed[constraints[c]]),
                      (IF real_shanten(precomputed[constraints[c]]) < best_shanten
                       THEN <<>> ELSE best_groups)
                      \o SelectSeq(precomputed[constraints[c]],
                                   LAMBDA combination :
                                       Len(combination.residue)
                                       = real_shanten(precomputed[constraints[c]])))
    IN loop(1, 14, <<>>)

\* _can_construct_half_flush_from_precomputed; _find_example_tile gives the
\* first tile of the first group that has one
_can_construct_half_flush_from_precomputed(hand_tiles, precomputed) ==
    LET _find_example_tile(combination) ==
            IF Flatten(combination.groups) = <<>>
            THEN [value |-> MahjongTile(-1, "None"),
                  err |-> "ValueError: All groups are empty"]
            ELSE [value |-> Flatten(combination.groups)[1], err |-> NoError]
        best_groups ==
            _get_best_groups_from_multiple_constraints(
                <<"FLUSH_CHARACTER", "FLUSH_CIRCLE", "FLUSH_BAMBOO">>, precomputed)
        example == _find_example_tile(best_groups[1])
        FAMILY_TILES(family) ==
            IF family = HONOR THEN _get_group(<<1, 2, 3, 4, 5, 6, 7>>, HONOR)
            ELSE _get_group(<<1, 2, 3, 4, 5, 6, 7, 8, 9>>, family)
    IN IF best_groups = <<>> THEN [result |-> <<>>, acceptance |-> {}, err |-> NoError]
       ELSE IF example.err # NoError
       THEN [result |-> <<>>, acceptance |-> {}, err |-> example.err]
       ELSE [result |-> best_groups,
             acceptance |->
                 _get_full_tile_acceptance(
                     hand_tiles, best_groups, {},
                     FAMILY_TILES(example.value.family)
                     \o _get_group(<<1, 2, 3, 4, 5, 6, 7>>, HONOR)),
             err |-> NoError]

\* analyze_hand, line 451
MinHandTiles == 13

-----------------------------------------------------------------------------
(* The calls the model makes.  A state holds one pending or finished call  *)
(* of a public function: call (the function and its arguments), pc         *)
(* ("ready" before the call, "done" after it) and result (what it          *)
(* returned, or the exception it raised, in result.err).  A call of        *)
(* analyze_hand_from_string goes through pc = "hand_types" while           *)
(* analyze_hand loops over the hand types, one hand type a step, with its  *)
(* local variables in analysis.  The model follows that loop through the   *)
(* pattern hand types, the first five of HandType: its behaviours are the  *)
(* beginnings of the behaviours of the program.                            *)

MaxTiles == 5
MaxGroups == 2
MaxWaitGroupLen == 3
MaxCopies == 4

Reversed(s) == [i \in 1..Len(s) |-> s[Len(s) + 1 - i]]

\* every multiset of at most MaxTiles tiles of the universe with at most
\* MaxCopies copies of a tile, as a list in ascending and in descending order
Hands ==
    \* the tiles the decomposition calls draw their hands from: run material
    \* (1-3 bamboo), a number with no run (8 bamboo), an honor and a second suit
    LET TileUniverse ==
            <<MahjongTile(1, "s"), MahjongTile(2, "s"), MahjongTile(3, "s"),
              MahjongTile(8, "s"), MahjongTile(1, "z"), MahjongTile(2, "p")>>
        Ascending(n) ==
            {ix \in [1..n -> 1..Len(TileUniverse)] :
                /\ \A i \in 1..(n - 1) : ix[i] <= ix[i + 1]
                /\ \A k \in 1..Len(TileUniverse) :
                      Cardinality({i \in 1..n : ix[i] = k}) <= MaxCopies}
        Tiles(ix) == [i \in 1..Len(ix) |-> TileUniverse[ix[i]]]
        Sorted == UNION {{Tiles(ix) : ix \in Ascending(n)} : n \in 0..MaxTiles}
    IN Sorted \cup {Reversed(hand) : hand \in Sorted}

Requests ==
    {r \in [sequence : 0..MaxGroups, three_same : 0..MaxGroups, pair : 0..MaxGroups] :
        r.sequence + r.three_same + r.pair <= MaxGroups}

NoConstraints == [none |-> TRUE, list |-> <<>>]

ConstraintList(list) == [none |-> FALSE, list |-> list]

\* the constraints argument of the constrained calls: absent, empty, the
\* no-op constraint, and lists that tiles of the universe tell apart
ConstraintArgs ==
    {NoConstraints, ConstraintList(<<>>),
     ConstraintList(<<"FLUSH_BAMBOO", "FLUSH_CIRCLE", "NONE">>),
     ConstraintList(<<"FIRST_FOUR", "SYMMETRIC", "FULL_TERMINALS_OR_HONORS">>)}

\* parse_tiles("134679s1222z")
ScenarioTiles ==
    _get_group(<<1, 3, 4, 6, 7, 9>>, "s") \o _get_group(<<1, 2, 2, 2>>, "z")

\* a call of all_groups_for
AllGroupsForCall(tiles, r) ==
    [fn |-> "all_groups_for", tiles |-> tiles, sequence |-> r.sequence,
     three_same |-> r.three_same, pair |-> r.pair, constraints |-> NoConstraints]

\* a call of all_groups_for_with_constraints
WithConstraintsCall(tiles, r, constraints) ==
    [fn |-> "all_groups_for_with_constraints", tiles |-> tiles, sequence |-> r.sequence,
     three_same |-> r.three_same, pair |-> r.pair, constraints |-> constraints]

\* hand strings: the straight of bamboos with honors, with 8s and 9s, with
\* 5 more tiles, with tiles a run can start from, with 3 tiles only, and
\* without the family of its last tiles; the same in upper case; a mixed
\* straight with honors
AnalyzedHands ==
    LET StraightOfBamboos == <<"1", "2", "3", "4", "5", "6", "7", "8", "9", "s">>
    IN
    {StraightOfBamboos \o tail :
        tail \in {<<"1", "1", "2", "2", "z">>, <<"8", "8", "9", "9", "p">>,
                  <<"1", "1", "2", "2", "3", "z">>, <<"1", "2", "8", "9", "p">>,
                  <<"1", "1", "2", "z">>, <<"1", "1", "2", "2">>}}
    \cup {<<"1", "2", "3", "4", "5", "6", "7", "8", "9", "S", "1", "1", "2", "2", "Z">>,
          <<"1", "2", "3", "m", "4", "5", "6", "p", "7", "8", "9", "s",
            "1", "1", "2", "2", "z">>}

MaxFormatted == 3

\* the tiles of the game: 1 to 9 of the suited families, 1 to 7 of the honors
ValidTiles ==
    {MahjongTile(number, family) : number \in 1..9, family \in {BAMBOO, CHARACTER, CIRCLE}}
    \cup {MahjongTile(number, HONOR) : number \in 1..7}

\* the hands that are formatted: up to MaxFormatted tiles in any order, of
\* every family, the smallest and the largest number, two tiles of a family
FormattedHands ==
    LET FormattedUniverse ==
            {MahjongTile(1, "s"), MahjongTile(9, "s"), MahjongTile(5, "m"),
             MahjongTile(1, "p"), MahjongTile(1, "z"), MahjongTile(7, "z")}
    IN UNION {[1..n -> FormattedUniverse] : n \in 0..MaxFormatted}

MaxString == 4

MaxTemplate == 3

\* the templates: every string of up to MaxTemplate characters among a
\* digit, a family letter, two suit wildcards, three number wildcards (A and
\* J are too far apart for the numbers 1 to 9) and a character that is none
\* of these; the examples of the docstring of pattern_generator, the
\* straight of three families, and longer templates: a suit wildcard used
\* twice, four suit wildcards, number wildcards in two blocks, an unknown
\* character after wildcard blocks, tiles before a number-wildcard block
Templates ==
    UNION {[1..n -> {"1", "s", "a", "b", "A", "C", "J", "!"}] : n \in 0..MaxTemplate}
    \cup {<<"1", "2", "3", "a", "4", "5", "6", "b">>,
          <<"A", "B", "C", "s", "C", "D", "E", "p", "E", "F", "G", "m">>,
          <<"1", "2", "3", "s", "4", "5", "6", "p", "7", "8", "9", "m">>,
          <<"1", "a", "2", "a">>,
          <<"1", "a", "2", "b", "3", "c", "4", "d">>,
          <<"A", "s", "C", "s">>,
          <<"C", "s", "A", "s">>,
          <<"A", "s", "A", "s">>,
          <<"A", "s", "J", "s">>,
          <<"A", "J", "s", "!">>,
          <<"C", "s", "A", "s", "!">>,
          <<"1", "a", "2", "b", "!">>,
          <<"1", "2", "3", "s", "A", "B", "C", "p">>}

MaxEnumerated == 3

MaxAcceptanceGroups == 3

MaxCalls == 2

MaxLeftovers == 4

MaxPrinted == 11

MaxOdd == 2

MaxAllTypes == 4

\* the hands the enumerators are called with: every multiset of at most
\* MaxEnumerated tiles, as a list in ascending and in descending order, of a
\* run from 2 (2s and 4s are symmetric and even, 3s is neither), a run from
\* 7 (no run starts at 8 or 9), a terminal of a second suit and an honor
EnumeratedHands ==
    LET EnumeratedUniverse ==
            <<MahjongTile(2, "s"), MahjongTile(3, "s"), MahjongTile(4, "s"),
              MahjongTile(7, "s"), MahjongTile(8, "s"), MahjongTile(9, "s"),
              MahjongTile(1, "p"), MahjongTile(1, "z")>>
        Ascending(n) ==
            {ix \in [1..n -> 1..Len(EnumeratedUniverse)] :
                \A i \in 1..(n - 1) : ix[i] <= ix[i + 1]}
        Tiles(ix) == [i \in 1..Len(ix) |-> EnumeratedUniverse[ix[i]]]
        Sorted == UNION {{Tiles(ix) : ix \in Ascending(n)} : n \in 0..MaxEnumerated}
    IN Sorted \cup {Reversed(hand) : hand \in Sorted}

\* the constraints argument of the enumerators: absent, the no-op
\* constraint, every constraint _get_respected_constraints has a case for,
\* and a list without the no-op constraint that names a constraint twice
EnumeratorConstraints ==
    {NoConstraints,
     ConstraintList(<<"NONE">>),
     ConstraintList(<<"NONE", "FLUSH_BAMBOO", "FLUSH_CIRCLE", "FLUSH_CHARACTER",
                      "FIRST_FOUR", "LAST_FOUR", "FIRST_THREE", "MIDDLE_THREE",
                      "LAST_THREE", "SYMMETRIC", "FULL_TERMINALS_OR_HONORS",
                      "FULL_HONORS", "FULL_TERMINALS", "EVEN", "GREEN">>),
     ConstraintList(<<"FULL_HONORS", "EVEN", "LAST_THREE", "SYMMETRIC", "EVEN">>)}

\* the groups of the decompositions whose acceptance is computed: up to
\* MaxAcceptanceGroups groups among the empty group, lone tiles (at the ends
\* and in the middle of a suit, an honor), pairs, partial runs and a run
AcceptanceGroups ==
    LET s(n) == MahjongTile(n, BAMBOO)
        z(n) == MahjongTile(n, HONOR)
        pool == {<<>>, <<s(1)>>, <<s(2)>>, <<s(5)>>, <<s(8)>>, <<s(9)>>, <<z(1)>>,
                 <<s(5), s(5)>>, <<z(1), z(1)>>, <<s(3), s(4)>>, <<s(3), s(5)>>,
                 <<s(1), s(2), s(3)>>}
    IN UNION {[1..n -> pool] : n \in 0..MaxAcceptanceGroups}

\* the results of the hand types of which a discard is chosen: up to
\* MaxLeftovers leftover tiles (the ends and the middle of a suit, a second
\* suit, two honors) in one decomposition, in two decompositions of one hand
\* type or in the decompositions of two hand types that are both best, the
\* leftovers of one hand type being as many (analyze_hand, lines 469-474);
\* or a best hand type with no leftover next to one with leftovers
DiscardChoices ==
    LET tiles == {MahjongTile(1, BAMBOO), MahjongTile(4, BAMBOO), MahjongTile(9, BAMBOO),
                  MahjongTile(9, CIRCLE), MahjongTile(1, HONOR), MahjongTile(2, HONOR)}
        leftovers == UNION {[1..n -> tiles] : n \in 0..MaxLeftovers}
        one(residue) == [groups |-> <<>>, residue |-> residue]
        half(residue) == Len(residue) \div 2
        first(residue) == SubSeq(residue, 1, half(residue))
        second(residue) == SubSeq(residue, half(residue) + 1, Len(residue))
        even == {residue \in leftovers : Len(residue) % 2 = 0}
    IN {[best_results |-> <<"Pure Straight">>,
         results |-> [k \in {"Pure Straight"} |-> <<one(residue)>>]] : residue \in leftovers}
       \cup {[best_results |-> <<"Pure Straight">>,
              results |-> [k \in {"Pure Straight"} |->
                             <<one(first(residue)), one(second(residue))>>]] :
                residue \in even}
       \cup {[best_results |-> <<"Pure Straight", "Seven Pairs">>,
              results |-> [k \in {"Pure Straight", "Seven Pairs"} |->
                             IF k = "Pure Straight" THEN <<one(first(residue))>>
                             ELSE <<one(second(residue))>>]] :
                residue \in even}
       \cup {[best_results |-> <<"Seven Pairs">>,
              results |-> [k \in {"Pure Straight", "Seven Pairs"} |->
                             IF k = "Pure Straight" THEN <<one(residue)>>
                             ELSE <<one(<<>>)>>]] :
                residue \in leftovers \ {<<>>}}

\* the lists of combinations of which a section is printed: up to MaxPrinted
\* combinations of a hand of 13 or 14 tiles, all with as many leftover tiles,
\* each with a different first group and with either no group of one tile
\* or one, the combinations of a list having as many groups of one tile but
\* for MaxOdd of them at most
PrintedResults ==
    LET first == <<<<1, 2>>, <<1, 3>>, <<2, 3>>, <<2, 4>>, <<3, 4>>, <<3, 5>>, <<4, 5>>,
                   <<4, 6>>, <<5, 6>>, <<5, 7>>, <<6, 7>>, <<6, 8>>, <<7, 8>>, <<7, 9>>>>
        circle(numbers) == _get_group(numbers, CIRCLE)
        honor(numbers) == _get_group(numbers, HONOR)
        combination(i, lone, drawn) ==
            IF lone = 1
            THEN [groups |-> <<_get_group(first[i], BAMBOO), circle(<<5, 5, 5>>),
                               circle(<<6, 6>>), circle(<<9>>), honor(<<2, 2>>)>>,
                  residue |-> circle(<<8>>) \o honor(<<5, 6>>) \o drawn]
            ELSE [groups |-> <<_get_group(first[i], BAMBOO), circle(<<5, 5>>),
                               circle(<<5, 6>>), circle(<<6, 8>>), honor(<<2, 2>>)>>,
                  residue |-> circle(<<9>>) \o honor(<<5, 6>>) \o drawn]
        masks(n) ==
            {lone \in [1..n -> {0, 1}] :
                \/ Cardinality({i \in 1..n : lone[i] = 1}) <= MaxOdd
                \/ Cardinality({i \in 1..n : lone[i] = 0}) <= MaxOdd}
    IN UNION {{[i \in 1..n |-> combination(i, lone[i], drawn)] :
                  lone \in masks(n), drawn \in {<<>>, honor(<<7>>)}} :
              n \in 0..MaxPrinted}

\* the hands of which the all types hand is tried: up to MaxAllTypes tiles
\* of two suits, winds and dragons
AllTypesHands ==
    LET tiles == {MahjongTile(1, CIRCLE), MahjongTile(2, CIRCLE), MahjongTile(8, CHARACTER),
                  MahjongTile(1, HONOR), MahjongTile(2, HONOR), MahjongTile(5, HONOR)}
    IN UNION {[1..n -> tiles] : n \in 0..MaxAllTypes}

\* the hands of which the half flush is tried, with what
\* _precompute_constraints returns for them under the three flush
\* constraints: hands of 13 tiles, four or five tiles of one suit, then four
\* or three of another, then 1z 1z 1z 2z 2z.  The combinations of a
\* constraint have three groups of its suit, the three 1z and the two 2z;
\* their leftovers are the other tiles of the hand.
HalfFlushHands ==
    LET suits == {CHARACTER, CIRCLE, BAMBOO}
        numbers ==
            [p1289 |-> <<1, 2, 8, 9>>, p1469 |-> <<1, 4, 6, 9>>,
             p12889 |-> <<1, 2, 8, 8, 9>>, p159 |-> <<1, 5, 9>>]
        found ==
            [p1289 |-> <<(<<(<<1>>), (<<2>>), (<<8>>)>>), (<<(<<1>>), (<<2>>), (<<9>>)>>),
                         (<<(<<1>>), (<<8>>), (<<9>>)>>), (<<(<<2>>), (<<8>>), (<<9>>)>>),
                         (<<(<<1, 2>>), (<<8>>), (<<9>>)>>), (<<(<<1>>), (<<2>>), (<<8>>)>>),
                         (<<(<<1>>), (<<2>>), (<<9>>)>>)>>,
             p1469 |-> <<(<<(<<1>>), (<<4>>), (<<6>>)>>), (<<(<<1>>), (<<4>>), (<<9>>)>>),
                         (<<(<<1>>), (<<6>>), (<<9>>)>>), (<<(<<4>>), (<<6>>), (<<9>>)>>),
                         (<<(<<1>>), (<<4, 6>>), (<<9>>)>>), (<<(<<1>>), (<<4, 6>>), (<<9>>)>>),
                         (<<(<<1>>), (<<4>>), (<<6>>)>>)>>,
             p12889 |-> <<(<<(<<1>>), (<<2>>), (<<8, 8>>)>>), (<<(<<1>>), (<<8, 8>>), (<<9>>)>>),
                          (<<(<<2>>), (<<8, 8>>), (<<9>>)>>), (<<(<<1, 2>>), (<<8, 8>>), (<<9>>)>>),
                          (<<(<<1>>), (<<2>>), (<<8, 8>>)>>)>>,
             p159 |-> <<(<<(<<1>>), (<<5>>), (<<9>>)>>), (<<(<<1>>), (<<5>>), (<<9>>)>>),
                        (<<(<<1>>), (<<5>>), (<<9>>)>>)>>]
        honors == <<_get_group(<<1, 1, 1>>, HONOR), _get_group(<<2, 2>>, HONOR)>>
        hand(p1, s1, p2, s2) ==
            _get_group(numbers[p1], s1) \o _get_group(numbers[p2], s2)
            \o _get_group(<<1, 1, 1, 2, 2>>, HONOR)
        combinations(part, suit, hand_tiles) ==
            [i \in DOMAIN found[part] |->
                LET groups == [g \in 1..3 |-> _get_group(found[part][i][g], suit)] \o honors
                IN [groups |-> groups,
                    residue |-> _get_group_residue(Flatten(groups), hand_tiles)]]
        precomputed(p1, s1, p2, s2) ==
            [constraint \in {"FLUSH_CHARACTER", "FLUSH_CIRCLE", "FLUSH_BAMBOO"} |->
                LET suit == CASE constraint = "FLUSH_CHARACTER" -> CHARACTER
                              [] constraint = "FLUSH_CIRCLE" -> CIRCLE
                              [] constraint = "FLUSH_BAMBOO" -> BAMBOO
                IN IF suit = s1 THEN combinations(p1, s1, hand(p1, s1, p2, s2))
                   ELSE IF suit = s2 THEN combinations(p2, s2, hand(p1, s1, p2, s2))
                   ELSE <<>>]
        parts == ({"p1289", "p1469"} \X {"p1289", "p1469"}) \cup {<<"p12889", "p159">>}
    IN {[hand_tiles |-> hand(p[1], s[1], p[2], s[2]),
         precomputed |-> precomputed(p[1], s[1], p[2], s[2])] :
            p \in parts, s \in {s \in suits \X suits : s[1] # s[2]}}

\* the local variables of analyze_hand, lines 457-461, and the position of
\* its loop in HandType
NoAnalysis ==
    \* analyze_hand, line 459
    LET FarthestAway == 15
    IN
    [hand_tiles |-> <<>>, next |-> 1, results |-> EmptyDict, best_results |-> <<>>,
     closest_away |-> FarthestAway, acceptance |-> EmptyDict]

Init ==
    \* the strings that are parsed, made of digits, family letters, a letter
    \* that is no family and the digit that is no tile number
    LET ParsedStrings ==
            UNION {[1..n -> {"1", "9", "s", "z", "x", "0"}] : n \in 0..MaxString}
        FamilyOrders == {<<CHARACTER, CIRCLE, BAMBOO>>, <<BAMBOO, CIRCLE, CHARACTER>>}
    \* a call of analyze_hand_from_string; order is the order in which the
    \* interpreter iterates the set of the three suited families
        AnalyzeCall(hand, order) ==
            [fn |-> "analyze_hand_from_string", hand |-> hand, order |-> order]
        NoResult == [value |-> <<>>, err |-> NoError, enumerated |-> 0]
    \* the groups find_simple_waits_for_two_tiles is called with: up to
    \* MaxWaitGroupLen tiles of one suited family, in any order
        WaitNumbers == UNION {[1..n -> 1..9] : n \in 0..MaxWaitGroupLen}
    \* a call of find_simple_waits_for_two_tiles
        WaitsCall(group) ==
            [fn |-> "find_simple_waits_for_two_tiles", tiles |-> group,
             sequence |-> 0, three_same |-> 0, pair |-> 0, constraints |-> NoConstraints]
    IN
    /\ pc = "ready"
    /\ result = NoResult
    /\ analysis = NoAnalysis
    /\ \/ \E hand \in Hands, r \in Requests : call = AllGroupsForCall(hand, r)
       \/ call = AllGroupsForCall(ScenarioTiles,
                                  [sequence |-> 3, three_same |-> 0, pair |-> 0])
       \/ \E hand \in Hands, r \in Requests, c \in ConstraintArgs :
             call = WithConstraintsCall(hand, r, c)
       \/ \E numbers \in WaitNumbers, family \in {BAMBOO, CHARACTER, CIRCLE} :
             call = WaitsCall(_get_group(numbers, family))
       \/ \E hand \in AnalyzedHands, order \in FamilyOrders :
             call = AnalyzeCall(hand, order)
       \/ \E hand \in FormattedHands :
             call = [fn |-> "MahjongHand.__str__", tiles |-> hand]
       \/ \E tile \in ValidTiles :
             call = [fn |-> "MahjongTile.__str__", tiles |-> <<tile>>]
       \/ \E string \in ParsedStrings :
             call = [fn |-> "parse_tiles", string |-> string]
       \/ \E input_pattern \in Templates, order \in FamilyOrders :
             call = [fn |-> "pattern_generator", input_pattern |-> input_pattern,
                     order |-> order]
       \/ \E fn \in {"find_sequences", "find_three_of_a_kind", "find_pair"},
             hand \in EnumeratedHands, c \in EnumeratorConstraints :
             call = [fn |-> fn, tiles |-> hand, constraints |-> c]
       \/ \E groups \in AcceptanceGroups :
             call = [fn |-> "_get_tile_acceptance_of_groups", groups |-> groups]
       \/ \E best_groups \in PrintedResults :
             call = [fn |-> "_print_result", best_groups |-> best_groups]
       \/ \E hand_tiles \in AllTypesHands :
             call = [fn |-> "_can_construct_all_types", hand_tiles |-> hand_tiles]
       \/ \E hand \in HalfFlushHands :
             call = [fn |-> "_can_construct_half_flush_from_precomputed",
                     hand_tiles |-> hand.hand_tiles, precomputed |-> hand.precomputed]
       \/ \E choice \in DiscardChoices :
             call = [fn |-> "_print_best_discard_choice",
                     best_results |-> choice.best_results, results |-> choice.results]

CallAllGroupsFor ==
    /\ pc = "ready"
    /\ call.fn = "all_groups_for"
    /\ result' = all_groups_for(call.tiles, call.sequence, call.three_same, call.pair)
    /\ pc' = "done"
    /\ UNCHANGED <<call, analysis>>

CallAllGroupsForWithConstraints ==
    /\ pc = "ready"
    /\ call.fn = "all_groups_for_with_constraints"
    /\ result' = all_groups_for_with_constraints(call.tiles, call.sequence,
                                                 call.three_same, call.pair,
                                                 call.constraints)
    /\ pc' = "done"
    /\ UNCHANGED <<call, analysis>>

CallFindSimpleWaits ==
    /\ pc = "ready"
    /\ call.fn = "find_simple_waits_for_two_tiles"
    /\ result' = [value |-> find_simple_waits_for_two_tiles(call.tiles),
                  err |-> NoError, enumerated |-> 0]
    /\ pc' = "done"
    /\ UNCHANGED <<call, analysis>>

\* an exception leaves the call
Raise(err) ==
    /\ result' = [value |-> <<>>, err |-> err, enumerated |-> 0]
    /\ pc' = "done"
    /\ UNCHANGED <<call, analysis>>

\* analyze_hand, lines 451-463, given the tiles parse_tiles returned
BeginAnalysis(parsed) ==
    LET NotEnoughForAnalysis == "AttributeError: Not enough tiles. At least 13 are needed for analysis."
    IN
    IF parsed.err # NoError THEN Raise(parsed.err)
    ELSE IF Len(parsed.value) < MinHandTiles THEN Raise(NotEnoughForAnalysis)
    ELSE IF PrecomputeRaises(parsed.value, 0) # NoError
    THEN Raise(PrecomputeRaises(parsed.value, 0))
    ELSE /\ analysis' = [NoAnalysis EXCEPT !.hand_tiles = parsed.value]
         /\ pc' = "hand_types"
         /\ UNCHANGED <<call, result>>

\* analyze_hand_from_string, and analyze_hand up to its loop
CallAnalyzeHandFromString ==
    /\ pc = "ready"
    /\ call.fn = "analyze_hand_from_string"
    /\ BeginAnalysis(parse_tiles(lower(call.hand)))

\* analyze_hand, lines 467-476: the local variables after a hand type
Analyzed(locals, hand_type, hand_results, hand_acceptance) ==
    IF hand_results = <<>> THEN [locals EXCEPT !.next = @ + 1]
    ELSE [locals EXCEPT
            !.next = @ + 1,
            !.best_results =
                IF Len(hand_results[1].residue) < locals.closest_away THEN <<hand_type>>
                ELSE IF Len(hand_results[1].residue) = locals.closest_away
                THEN Append(@, hand_type)
                ELSE @,
            !.closest_away =
                IF Len(hand_results[1].residue) < @ THEN Len(hand_results[1].residue)
                ELSE @,
            !.results = DictPut(@, hand_type, hand_results),
            !.acceptance = DictPut(@, hand_type, hand_acceptance)]

\* analyze_hand, lines 466-476, given what _can_construct_hand_type returned
AfterHandType(hand_type, constructed) ==
    IF constructed.err # NoError THEN Raise(constructed.err)
    ELSE /\ analysis' = Analyzed(analysis, hand_type, constructed.result,
                                 constructed.acceptance)
         /\ UNCHANGED <<call, pc, result>>

\* one turn of the loop of analyze_hand, for a pattern hand type
AnalyzeHandType ==
    \* the values of HandType, in the order of the class
    LET HandType ==
            <<"Mixed Straight", "Mixed Shifted", "Pure Straight", "Pure Shifted", "Triple Chows",
              "All Pungs", "Seven Pairs", "Half Flush", "All Types", "Knitted",
              "First or Last n tiles", "Symmetry">>
    \* the hand types _can_construct_hand_type gives to
    \* _can_construct_with_3_group_pattern
        PatternHandTypes ==
            {"Mixed Shifted", "Mixed Straight", "Triple Chows", "Pure Shifted", "Pure Straight"}
    IN
    /\ pc = "hand_types"
    /\ analysis.next <= Len(HandType)
    /\ HandType[analysis.next] \in PatternHandTypes
    /\ AfterHandType(HandType[analysis.next],
                     _can_construct_hand_type(HandType[analysis.next],
                                              analysis.hand_tiles, call.order))

\* str(MahjongHand(tiles)) given to parse_tiles
FormatAndParseHand ==
    /\ pc = "ready"
    /\ call.fn = "MahjongHand.__str__"
    /\ result' = [text |-> MahjongHand__str__(call.tiles),
                  value |-> parse_tiles(MahjongHand__str__(call.tiles)).value,
                  err |-> parse_tiles(MahjongHand__str__(call.tiles)).err]
    /\ pc' = "done"
    /\ UNCHANGED <<call, analysis>>

\* MahjongTile(str(tile))
FormatAndParseTile ==
    /\ pc = "ready"
    /\ call.fn = "MahjongTile.__str__"
    /\ result' = [text |-> MahjongTile__str__(call.tiles[1]),
                  value |-> MahjongTile__init__(MahjongTile__str__(call.tiles[1])).value,
                  err |-> MahjongTile__init__(MahjongTile__str__(call.tiles[1])).err]
    /\ pc' = "done"
    /\ UNCHANGED <<call, analysis>>

CallParseTiles ==
    /\ pc = "ready"
    /\ call.fn = "parse_tiles"
    /\ result' = parse_tiles(call.string)
    /\ pc' = "done"
    /\ UNCHANGED <<call, analysis>>

\* list(pattern_generator(input_pattern))
CallPatternGenerator ==
    /\ pc = "ready"
    /\ call.fn = "pattern_generator"
    /\ result' = pattern_generator(call.input_pattern, call.order)
    /\ pc' = "done"
    /\ UNCHANGED <<call, analysis>>

\* list(find_sequences(tiles, constraints))
CallFindSequences ==
    /\ pc = "ready"
    /\ call.fn = "find_sequences"
    /\ result' = [value |-> find_sequences(call.tiles, call.constraints.list),
                  err |-> NoError, enumerated |-> 1]
    /\ pc' = "done"
    /\ UNCHANGED <<call, analysis>>

\* list(find_three_of_a_kind(tiles, constraints))
CallFindThreeOfAKind ==
    /\ pc = "ready"
    /\ call.fn = "find_three_of_a_kind"
    /\ result' = [value |-> find_three_of_a_kind(call.tiles, call.constraints.list),
                  err |-> NoError, enumerated |-> 1]
    /\ pc' = "done"
    /\ UNCHANGED <<call, analysis>>

\* list(find_pair(tiles, constraints))
CallFindPair ==
    /\ pc = "ready"
    /\ call.fn = "find_pair"
    /\ result' = [value |-> find_pair(call.tiles, call.constraints.list),
                  err |-> NoError, enumerated |-> 1]
    /\ pc' = "done"
    /\ UNCHANGED <<call, analysis>>

\* how many top-level decomposition calls have been made when call is made
Nth(c) == IF "nth" \in DOMAIN c THEN c.nth ELSE 1

\* the next of a sequence of top-level decomposition calls, as in
\* _can_construct_one_group_one_pair (lines 332-333) and in the loop of
\* _precompute_constraints (lines 436-439): call.nth counts the calls and
\* call.left is the cache that the search of the call before has filled
CallDecompositionAgain ==
    \* the hands of the decomposition calls that follow one another
    LET SequenceHands ==
            {_get_group(<<1, 2, 3>>, BAMBOO),
             <<MahjongTile(1, BAMBOO), MahjongTile(1, BAMBOO), MahjongTile(1, HONOR)>>}
    \* the cache that the search of the call before c has filled; none before
    \* the first call
        Left(c) == IF "left" \in DOMAIN c THEN c.left ELSE {}
    IN
    /\ pc = "done"
    /\ call.fn \in {"all_groups_for", "all_groups_for_with_constraints"}
    /\ call.tiles \in SequenceHands
    /\ Nth(call) < MaxCalls
    /\ \E next \in {AllGroupsForCall(hand, r) : hand \in SequenceHands, r \in Requests}
                   \cup {WithConstraintsCall(hand, r, c) :
                            hand \in SequenceHands, r \in Requests, c \in ConstraintArgs} :
          /\ call' = [fn |-> next.fn, tiles |-> next.tiles, sequence |-> next.sequence,
                      three_same |-> next.three_same, pair |-> next.pair,
                      constraints |-> next.constraints, nth |-> Nth(call) + 1,
                      left |-> CacheLeft(Left(call), call)]
          /\ result' = SearchAfter(CacheLeft(Left(call), call), next)
    /\ pc' = "done"
    /\ UNCHANGED analysis

CallGetTileAcceptanceOfGroups ==
    /\ pc = "ready"
    /\ call.fn = "_get_tile_acceptance_of_groups"
    /\ result' = [value |-> _get_tile_acceptance_of_groups(call.groups),
                  err |-> NoError, enumerated |-> 0]
    /\ pc' = "done"
    /\ UNCHANGED <<call, analysis>>

CallPrintBestDiscardChoice ==
    /\ pc = "ready"
    /\ call.fn = "_print_best_discard_choice"
    /\ result' = [value |-> _print_best_discard_choice(call.best_results, call.results),
                  err |-> NoError, enumerated |-> 0]
    /\ pc' = "done"
    /\ UNCHANGED <<call, analysis>>

CallPrintResult ==
    /\ pc = "ready"
    /\ call.fn = "_print_result"
    /\ result' = [value |-> _print_result(call.best_groups), err |-> NoError, enumerated |-> 0]
    /\ pc' = "done"
    /\ UNCHANGED <<call, analysis>>

CallCanConstructAllTypes ==
    /\ pc = "ready"
    /\ call.fn = "_can_construct_all_types"
    /\ result' = [value |-> _can_construct_all_types(call.hand_tiles),
                  err |-> NoError, enumerated |-> 0]
    /\ pc' = "done"
    /\ UNCHANGED <<call, analysis>>

CallCanConstructHalfFlush ==
    /\ pc = "ready"
    /\ call.fn = "_can_construct_half_flush_from_precomputed"
    /\ LET returned == _can_construct_half_flush_from_precomputed(call.hand_tiles,
                                                                  call.precomputed)
       IN result' = [value |-> returned, err |-> returned.err, enumerated |-> 0]
    /\ pc' = "done"
    /\ UNCHANGED <<call, analysis>>

Next ==
    \/ CallAllGroupsFor
    \/ CallAllGroupsForWithConstraints
    \/ CallFindSimpleWaits
    \/ CallAnalyzeHandFromString
    \/ AnalyzeHandType
    \/ FormatAndParseHand
    \/ FormatAndParseTile
    \/ CallParseTiles
    \/ CallPatternGenerator
    \/ CallFindSequences
    \/ CallFindThreeOfAKind
    \/ CallFindPair
    \/ CallGetTileAcceptanceOfGroups
    \/ CallDecompositionAgain
    \/ CallPrintBestDiscardChoice
    \/ CallPrintResult
    \/ CallCanConstructAllTypes
    \/ CallCanConstructHalfFlush

Spec == Init /\ [][Next]_vars

-----------------------------------------------------------------------------
(* What the properties below read off a finished decomposition call.       *)

IsSearch == call.fn \in {"all_groups_for", "all_groups_for_with_constraints"}

SearchDone == pc = "done" /\ IsSearch

Needed == 3 * (call.sequence + call.three_same) + 2 * call.pair

Requirements == call.sequence + call.three_same + call.pair

\* the constraint list the search of the call runs with
RequestedConstraints ==
    IF call.fn = "all_groups_for" THEN <<"NONE">> ELSE call.constraints.list

\* the request reaches _find_all_groups_for: it is not refused for its
\* constraint list
ReachesSearch == call.fn = "all_groups_for" \/ ~Falsy(call.constraints)

\* the decompositions a call returned, by constraint (the flat list of
\* all_groups_for is the list of Constraint.NONE)
Buckets(fn, res) ==
    IF fn = "all_groups_for" THEN [c \in {"NONE"} |-> res.value] ELSE res.value

Listed == Buckets(call.fn, result)

RECURSIVE TilesIn(_)
TilesIn(groups) ==
    IF groups = <<>> THEN 0 ELSE Len(Head(groups)) + TilesIn(Tail(groups))

GroupTuples(list) == {list[i].groups : i \in DOMAIN list}

LeftoverSizes(list) == {Len(list[i].residue) : i \in DOMAIN list}

\* the same call with the memo check of lines 237-238 removed
WithoutMemo ==
    IF call.fn = "all_groups_for"
    THEN AllGroupsFor(call.tiles, call.sequence, call.three_same, call.pair, FALSE)
    ELSE AllGroupsForWithConstraints(call.tiles, call.sequence, call.three_same,
                                     call.pair, call.constraints, FALSE)

\* every candidate decomposition of a request: one proto-group of the
\* enumerator of each requirement in turn (pairs, runs, triplets), with the
\* constraints all its groups respect; nothing is pruned and nothing skipped
RECURSIVE Candidates(_, _, _, _, _)
Candidates(tiles, sequence, three_same, pair, constraints) ==
    LET found == IF pair > 0 THEN find_pair(tiles, constraints)
                 ELSE IF sequence > 0 THEN find_sequences(tiles, constraints)
                 ELSE find_three_of_a_kind(tiles, constraints)
        new_pair == IF pair > 0 THEN pair - 1 ELSE pair
        new_sequence == IF pair = 0 /\ sequence > 0 THEN sequence - 1 ELSE sequence
        new_three_same == IF pair = 0 /\ sequence = 0 THEN three_same - 1 ELSE three_same
    IN UNION {IF new_pair + new_sequence + new_three_same = 0
              THEN {[groups |-> <<g.group>>, residue |-> g.residue,
                     respected |-> Range(g.respected)]}
              ELSE {[groups |-> merge_group_tuple(d.groups, g.group),
                     residue |-> d.residue, respected |-> d.respected] :
                        d \in Candidates(g.residue, new_sequence, new_three_same,
                                         new_pair, g.respected)} :
              g \in Range(found)}

\* two results list the same sorted group tuples under the same constraints
SameTuples(listed, other) ==
    /\ DOMAIN listed = DOMAIN other
    /\ \A c \in DOMAIN listed : GroupTuples(listed[c]) = GroupTuples(other[c])

\* a constraint under which "other" lists more decompositions than "listed"
SomeListLonger(listed, other) ==
    \E c \in DOMAIN listed : listed[c] # <<>> /\ Len(other[c]) > Len(listed[c])

CandidateLeftovers(constraint) ==
    {Len(d.residue) :
        d \in {x \in Candidates(call.tiles, call.sequence, call.three_same, call.pair,
                                RequestedConstraints) : constraint \in x.respected}}

-----------------------------------------------------------------------------
(* C1 Conservation: in every decomposition a call of all_groups_for or of  *)
(* all_groups_for_with_constraints returns, the tiles of all groups plus   *)
(* the leftover tiles are as many as the tiles of the input.               *)
C1_Conservation ==
    SearchDone /\ result.err = NoError =>
        \A c \in DOMAIN Listed : \A i \in DOMAIN Listed[c] :
            TilesIn(Listed[c][i].groups) + Len(Listed[c][i].residue) = Len(call.tiles)

\* a returned decomposition of two groups, one of them of three tiles, that
\* leaves a tile over
C1_Witness ==
    /\ SearchDone /\ result.err = NoError
    /\ \E c \in DOMAIN Listed : \E i \in DOMAIN Listed[c] :
          /\ Len(Listed[c][i].groups) = 2
          /\ \E g \in Range(Listed[c][i].groups) : Len(g) = 3
          /\ Len(Listed[c][i].residue) = 1

(* C2 Monotonic pruning: for a request with at least one requirement, all  *)
(* decompositions returned under a constraint have the same leftover size, *)
(* and it is the smallest leftover size of the candidate decompositions of *)
(* that constraint.                                                        *)
C2_MonotonicPruning ==
    SearchDone /\ result.err = NoError /\ Requirements >= 1 =>
        \A c \in DOMAIN Listed :
            /\ Cardinality(LeftoverSizes(Listed[c])) <= 1
            /\ \A i \in DOMAIN Listed[c] : \A n \in CandidateLeftovers(c) :
                  Len(Listed[c][i].residue) <= n

\* what the code does keep of C2: with two requirements or more the returned
\* leftover sizes are the smallest of the candidates
PruningFromTwoRequirements ==
    SearchDone /\ result.err = NoError /\ Requirements >= 2 =>
        \A c \in DOMAIN Listed :
            /\ Cardinality(LeftoverSizes(Listed[c])) <= 1
            /\ \A i \in DOMAIN Listed[c] : \A n \in CandidateLeftovers(c) :
                  Len(Listed[c][i].residue) <= n

\* the outcome of the call against the outcome "other" of the same call
SameOutcome(listed, other) ==
    /\ result.err = other.err
    /\ SameTuples(listed, Buckets(call.fn, other))

(* C3 Memo correctness: per constraint, the search with the memo returns   *)
(* the same set of sorted group tuples as the search with the memo check   *)
(* removed, and raises the same error if any.                              *)
C3_MemoCorrectness == SearchDone => SameOutcome(Listed, WithoutMemo)

\* the memo skipped a group combination that a second enumeration order
\* reached: without the check the list of a constraint is longer
C3_Witness ==
    /\ SearchDone /\ result.err = NoError
    /\ SomeListLonger(Listed, Buckets(call.fn, WithoutMemo))

IsScenario ==
    /\ call.fn = "all_groups_for" /\ call.tiles = ScenarioTiles
    /\ call.sequence = 3 /\ call.three_same = 0 /\ call.pair = 0

(* C4 End-to-end scenario, as the spec states it: all_groups_for on        *)
(* "134679s1222z" with 3 runs returns a decomposition whose groups use 9   *)
(* of the 10 tiles and whose leftover holds 1 tile.                        *)
C4_ScenarioNineOfTen ==
    pc = "done" /\ IsScenario =>
        \E i \in DOMAIN result.value :
            /\ TilesIn(result.value[i].groups) = 9
            /\ Len(result.value[i].residue) = 1

(* C4 as amended: the call returns a decomposition whose groups use 6 of   *)
(* the 10 tiles and whose leftover holds exactly 4 tiles, and none with a  *)
(* smaller leftover.                                                       *)
C4_ScenarioSixOfTen ==
    pc = "done" /\ IsScenario =>
        /\ result.err = NoError
        /\ \E i \in DOMAIN result.value :
              /\ TilesIn(result.value[i].groups) = 6
              /\ Len(result.value[i].residue) = 4
        /\ \A i \in DOMAIN result.value : Len(result.value[i].residue) >= 4

C4_Witness == pc = "done" /\ IsScenario /\ result.value # <<>>

\* the size checks are all a constrained search raises
SearchRaisesBeforeSearching ==
    pc = "done" /\ call.fn = "all_groups_for_with_constraints" =>
        result.err = RaisedBySearch(call.tiles, call.sequence, call.three_same,
                                    call.pair, call.constraints)

\* the call analyzes a well-formed hand string of 13 or 14 tiles with at
\* most 4 copies of a tile
AnalyzesFullHand ==
    /\ call.fn = "analyze_hand_from_string"
    /\ parse_tiles(lower(call.hand)).err = NoError
    /\ Len(parse_tiles(lower(call.hand)).value) \in {MinHandTiles, MinHandTiles + 1}
    /\ \A tile \in Range(parse_tiles(lower(call.hand)).value) :
          ListCount(parse_tiles(lower(call.hand)).value, tile) <= MaxCopies

(* C5: for a well-formed hand string of 13 or 14 tiles with at most 4      *)
(* copies of a tile, analyze_hand_from_string raises no error.             *)
C5_AnalysisRaisesNoError == AnalyzesFullHand => result.err = NoError

(* C6 Insufficient tiles, as the spec states it: every decomposition       *)
(* request on fewer than 3*(r+t)+2*p-1 tiles fails with the                *)
(* insufficient-tiles error and returns nothing, and no request on that    *)
(* many tiles or more raises that error.                                   *)
C6_InsufficientTilesAnyRequest ==
    SearchDone =>
        /\ Len(call.tiles) < Needed - 1 =>
              result.err = NotEnoughTiles /\ result.value = <<>>
        /\ Len(call.tiles) >= Needed - 1 => result.err # NotEnoughTiles

(* C6 as amended: the same for every request that reaches the search, the  *)
(* unconstrained entry point or the constrained one with a non-empty       *)
(* constraint list; no other request raises the insufficient-tiles error.  *)
C6_InsufficientTiles ==
    SearchDone =>
        /\ ReachesSearch /\ Len(call.tiles) < Needed - 1 =>
              result.err = NotEnoughTiles /\ result.value = <<>>
        /\ ~ReachesSearch \/ Len(call.tiles) >= Needed - 1 =>
              result.err # NotEnoughTiles

\* a run and a pair asked of 3 tiles, one fewer than the 4 the check lets through
C6_Witness ==
    /\ SearchDone /\ ReachesSearch
    /\ Len(call.tiles) = Needed - 2
    /\ call.pair = 1 /\ call.sequence = 1
    /\ result.err = NotEnoughTiles

(* C7: for tiles and requirement counts, not all zero, that pass the size  *)
(* check, all_groups_for returns a list and raises no error.               *)
C7_UnconstrainedReturnsList ==
    pc = "done" /\ call.fn = "all_groups_for"
        /\ Requirements >= 1 /\ Len(call.tiles) >= Needed - 1
        => result.err = NoError

(* C8: a request with zero runs, zero triplets and zero pairs returns the  *)
(* empty decomposition and raises no error, through all_groups_for as well *)
(* as through all_groups_for_with_constraints.                             *)
C8_ZeroRequest ==
    SearchDone /\ ReachesSearch /\ Requirements = 0 =>
        /\ result.err = NoError
        /\ result.value = <<>>

(* C9: all_groups_for_with_constraints with an empty or absent constraint  *)
(* list fails with the invalid-constraint-request error before any         *)
(* proto-group is enumerated, whatever the tiles and requirement counts.   *)
C9_InvalidConstraintRequest ==
    pc = "done" /\ call.fn = "all_groups_for_with_constraints"
        /\ (call.constraints.none \/ call.constraints.list = <<>>)
        => /\ result.err = InvalidConstraints
           /\ result.enumerated = 0
           /\ result.value = EmptyDict

\* an empty list refused for a request the tiles would be enough for
C9_Witness ==
    /\ pc = "done" /\ call.fn = "all_groups_for_with_constraints"
    /\ ~call.constraints.none /\ call.constraints.list = <<>>
    /\ Requirements = 2 /\ Len(call.tiles) >= Needed
    /\ result.err = InvalidConstraints

\* the two-tile wait rule, stated on the numbers of the group
ExpectedWaits(group) ==
    IF Len(group) # 2 THEN {}
    ELSE LET a == group[1].number
             b == group[2].number
             low == IF a < b THEN a ELSE b
             high == IF a < b THEN b ELSE a
         IN IF a = b THEN {group[1]}
            ELSE IF high - low = 1
                 THEN {MahjongTile(n, group[1].family) : n \in {low - 1, high + 1} \cap 1..9}
            ELSE IF high - low = 2
                 THEN {MahjongTile(low + 1, group[1].family)}
            ELSE {}

(* C10 Two-tile wait rule: for a group of one suited family,               *)
(* find_simple_waits_for_two_tiles returns the tile itself for two equal   *)
(* tiles, the exterior neighbours numbered 1..9 for numbers that differ by *)
(* 1, the middle number for numbers that differ by 2, and nothing          *)
(* otherwise or when the group does not have two tiles.                    *)
C10_TwoTileWaits ==
    pc = "done" /\ call.fn = "find_simple_waits_for_two_tiles" =>
        result.value = ExpectedWaits(call.tiles)

\* the group [2s, 1s] waits on 3s only
C10_Witness ==
    /\ pc = "done" /\ call.fn = "find_simple_waits_for_two_tiles"
    /\ call.tiles = <<MahjongTile(2, "s"), MahjongTile(1, "s")>>
    /\ result.value = {MahjongTile(3, "s")}

\* two lists hold the same tiles, each as many times
SameMultiset(a, b) ==
    /\ Len(a) = Len(b)
    /\ \A tile \in Range(a) \cup Range(b) : ListCount(a, tile) = ListCount(b, tile)

(* C11 Round-trip: a tile made from the string of a valid tile equals the  *)
(* tile; parse_tiles of the string of a hand of valid tiles returns the    *)
(* same multiset of tiles, whatever the order of the tiles in the hand.    *)
C11_RoundTrip ==
    /\ pc = "done" /\ call.fn = "MahjongTile.__str__" =>
          result.err = NoError /\ result.value = call.tiles[1]
    /\ pc = "done" /\ call.fn = "MahjongHand.__str__" =>
          result.err = NoError /\ SameMultiset(result.value, call.tiles)

\* the hand [7z, 9s, 1s] is written "19s7z" and read back in another order
C11_Witness ==
    /\ pc = "done" /\ call.fn = "MahjongHand.__str__"
    /\ call.tiles = <<MahjongTile(7, "z"), MahjongTile(9, "s"), MahjongTile(1, "s")>>
    /\ result.text = <<"1", "9", "s", "7", "z">>
    /\ result.value = <<MahjongTile(1, "s"), MahjongTile(9, "s"), MahjongTile(7, "z")>>

IsDigit(char) == char \in {"1", "2", "3", "4", "5", "6", "7", "8", "9"}

IsFamilyLetter(char) == char \in {"s", "m", "p", "z"}

\* a character that is neither a digit nor a family letter occurs, or a
\* digit is followed by digits only up to the end of the string
Malformed(string) ==
    \/ \E i \in DOMAIN string : ~IsDigit(string[i]) /\ ~IsFamilyLetter(string[i])
    \/ \E i \in DOMAIN string :
          IsDigit(string[i]) /\ \A j \in (i + 1)..Len(string) : IsDigit(string[j])

DigitPositions(string) == {i \in DOMAIN string : IsDigit(string[i])}

\* the position of the k-th digit of the string
DigitPosition(string, k) ==
    CHOOSE i \in DigitPositions(string) :
        Cardinality({j \in DigitPositions(string) : j <= i}) = k

\* the first family letter after position i
NextFamilyLetter(string, i) ==
    string[CHOOSE j \in (i + 1)..Len(string) :
              /\ IsFamilyLetter(string[j])
              /\ \A k \in (i + 1)..(j - 1) : ~IsFamilyLetter(string[k])]

\* the tile the digit at position i denotes
DenotedTile(string, i) ==
    MahjongTile(CHOOSE n \in 1..9 : str(n) = <<string[i]>>, NextFamilyLetter(string, i))

(* C12: parse_tiles raises a format error and returns no tiles for every   *)
(* string in which a character other than a digit 1-9 or a family letter   *)
(* occurs or in which a run of digits is not followed by a family letter;  *)
(* for every other string it returns one tile per digit, in the order of   *)
(* the digits, with the family of the next family letter.                  *)
C12_ParseTiles ==
    pc = "done" /\ call.fn = "parse_tiles" =>
        IF Malformed(call.string)
        THEN result.err \in {UnknownCharacter, MissingFamily} /\ result.value = <<>>
        ELSE /\ result.err = NoError
             /\ Len(result.value) = Cardinality(DigitPositions(call.string))
             /\ \A k \in DOMAIN result.value :
                   result.value[k] = DenotedTile(call.string, DigitPosition(call.string, k))

\* "1s9": a tile is read before the digit that no family letter follows,
\* and no tile is returned
C12_Witness ==
    /\ pc = "done" /\ call.fn = "parse_tiles"
    /\ call.string = <<"1", "s", "9">>
    /\ result.err = MissingFamily /\ result.value = <<>>

\* "19sz": two tiles of the next family letter, and a letter with no digit
C12_WitnessParsed ==
    /\ pc = "done" /\ call.fn = "parse_tiles"
    /\ call.string = <<"1", "9", "s", "z">>
    /\ result.value = <<MahjongTile(1, "s"), MahjongTile(9, "s")>>

PatternDone == pc = "done" /\ call.fn = "pattern_generator"

\* the pattern holds digits 1-9 and family letters only
NoWildcard(pattern) ==
    \A i \in DOMAIN pattern : IsDigit(pattern[i]) \/ IsFamilyLetter(pattern[i])

(* C13 Pattern generator totality, as the spec states it: for every        *)
(* pattern of digits 1-9 and family letters only, pattern_generator yields *)
(* exactly one result, equal to the input pattern.                         *)
C13_PatternTotalityAnyPattern ==
    PatternDone /\ NoWildcard(call.input_pattern) =>
        result.err = NoError /\ result.value = <<call.input_pattern>>

(* C13 as amended: the same for every pattern of at least one character;   *)
(* for the empty pattern pattern_generator yields no result.               *)
C13_PatternTotality ==
    PatternDone /\ NoWildcard(call.input_pattern) =>
        /\ result.err = NoError
        /\ result.value = IF call.input_pattern = <<>> THEN <<>>
                          ELSE <<call.input_pattern>>

\* pattern_generator("123s456p789m") has yielded ["123s456p789m"]
C13_Witness ==
    /\ PatternDone
    /\ call.input_pattern =
          <<"1", "2", "3", "s", "4", "5", "6", "p", "7", "8", "9", "m">>
    /\ result.value = <<call.input_pattern>>

\* a suit wildcard: a lower case letter that is no family letter
IsSuitWildcard(char) == islower(char) /\ ~IsFamilyLetter(char)

SuitWildcards(template) ==
    {template[i] : i \in {j \in DOMAIN template : IsSuitWildcard(template[j])}}

\* the template holds digits, family letters and at least one suit wildcard
IsSuitTemplate(template) ==
    /\ \A i \in DOMAIN template :
          IsDigit(template[i]) \/ IsFamilyLetter(template[i]) \/ IsSuitWildcard(template[i])
    /\ SuitWildcards(template) # {}

\* the ways to give each suit wildcard of the template a suited family of
\* its own
SuitBindings(template) ==
    {binding \in [SuitWildcards(template) -> {"s", "m", "p"}] :
        \A x, y \in SuitWildcards(template) : x # y => binding[x] # binding[y]}

\* the template with its wildcards replaced
Bound(template, binding) ==
    [i \in DOMAIN template |->
        IF template[i] \in DOMAIN binding THEN binding[template[i]] ELSE template[i]]

\* the results are the given patterns, each yielded once
YieldsEachOnce(patterns) ==
    /\ result.err = NoError
    /\ Range(result.value) = patterns
    /\ Len(result.value) = Cardinality(patterns)

(* C14 Suit wildcards: for a template whose only wildcards are lower case  *)
(* letters, the results of pattern_generator are exactly, each once, the   *)
(* patterns obtained by replacing every wildcard letter by one of the      *)
(* three suited families, the same family at all occurrences of a letter   *)
(* and different families for different letters.                           *)
C14_SuitWildcards ==
    PatternDone /\ IsSuitTemplate(call.input_pattern) =>
        YieldsEachOnce({Bound(call.input_pattern, binding) :
                           binding \in SuitBindings(call.input_pattern)})

\* no suit wildcard is the first character of the template or follows
\* another suit wildcard directly
WildcardsFollowTiles(template) ==
    \A i \in DOMAIN template :
        IsSuitWildcard(template[i]) => i > 1 /\ ~IsSuitWildcard(template[i - 1])

\* what the code does keep of C14: the same for the templates in which
\* every suit wildcard follows a digit or a family letter
SuitWildcardsAfterTiles ==
    PatternDone /\ IsSuitTemplate(call.input_pattern)
        /\ WildcardsFollowTiles(call.input_pattern) =>
        YieldsEachOnce({Bound(call.input_pattern, binding) :
                           binding \in SuitBindings(call.input_pattern)})

\* the example of the docstring: 123a456b yields six patterns
SuitWildcardsExample ==
    /\ PatternDone
    /\ call.input_pattern = <<"1", "2", "3", "a", "4", "5", "6", "b">>
    /\ Len(result.value) = 6

NumberWildcards(template) ==
    {template[i] : i \in {j \in DOMAIN template : isupper(template[j])}}

\* the template is made of blocks of one or more upper case letters, each
\* terminated by a family letter
IsNumberTemplate(template) ==
    /\ \A i \in DOMAIN template : isupper(template[i]) \/ IsFamilyLetter(template[i])
    /\ template # <<>> /\ IsFamilyLetter(template[Len(template)])
    /\ \A i \in DOMAIN template :
          IsFamilyLetter(template[i]) => i > 1 /\ isupper(template[i - 1])

\* the place of a letter in the alphabet
AlphabeticPlace(letter) == CHOOSE n \in DOMAIN UpperCase : UpperCase[n] = letter

\* the ways to give each number wildcard of the template a number of 1..9
\* such that the numbers of two letters differ by their alphabetic distance:
\* one for each number of one of the wildcards that keeps them all in 1..9
NumberBindings(template) ==
    LET first == CHOOSE letter \in NumberWildcards(template) : TRUE
        Shifted(number) ==
            [letter \in NumberWildcards(template) |->
                number + AlphabeticPlace(letter) - AlphabeticPlace(first)]
    IN {Shifted(number) :
           number \in {n \in 1..9 : \A letter \in NumberWildcards(template) :
                                      Shifted(n)[letter] \in 1..9}}

\* a binding with its numbers written as digits
AsDigits(binding) == [letter \in DOMAIN binding |-> Digits[binding[letter]]]

(* C15 Number wildcards: for a template of blocks of upper case letters,   *)
(* each terminated by a family letter, the results of pattern_generator    *)
(* are exactly the patterns in which each letter is replaced by the same   *)
(* digit of 1..9 at all its occurrences and the digits of any two letters  *)
(* differ by the alphabetic distance of the letters; every such assignment *)
(* is generated, once.                                                     *)
C15_NumberWildcards ==
    PatternDone /\ IsNumberTemplate(call.input_pattern) =>
        YieldsEachOnce({Bound(call.input_pattern, AsDigits(binding)) :
                           binding \in NumberBindings(call.input_pattern)})

\* ABCsCDEpEFGm has yielded 123s345p567m, 234s456p678m and 345s567p789m
C15_Witness ==
    /\ PatternDone
    /\ call.input_pattern =
          <<"A", "B", "C", "s", "C", "D", "E", "p", "E", "F", "G", "m">>
    /\ result.value =
          <<(<<"1", "2", "3", "s", "3", "4", "5", "p", "5", "6", "7", "m">>),
            (<<"2", "3", "4", "s", "4", "5", "6", "p", "6", "7", "8", "m">>),
            (<<"3", "4", "5", "s", "5", "6", "7", "p", "7", "8", "9", "m">>)>>

\* a character that is no digit 1-9, no family letter and no letter
HasUnknownCharacter(template) ==
    \E i \in DOMAIN template :
        /\ ~IsDigit(template[i]) /\ ~IsFamilyLetter(template[i])
        /\ ~isupper(template[i]) /\ ~islower(template[i])

(* C16: for every template that contains a character which is neither a   *)
(* digit 1-9, a family letter nor a letter, consuming pattern_generator    *)
(* raises the format error and yields no pattern, wherever the character   *)
(* stands and whatever wildcard blocks precede it.                         *)
C16_UnknownCharacterRaises ==
    PatternDone /\ HasUnknownCharacter(call.input_pattern) =>
        result.err = MisplacedCharacter /\ result.value = <<>>

\* what the code does keep of C16: no pattern is yielded from a template
\* with such a character, and no other error is raised
UnknownCharacterYieldsNothing ==
    PatternDone /\ HasUnknownCharacter(call.input_pattern) =>
        result.err \in {MisplacedCharacter, NoError} /\ result.value = <<>>

\* the error is raised after a block of number wildcards was resolved
UnknownCharacterAfterBlock ==
    /\ PatternDone
    /\ call.input_pattern = <<"C", "s", "A", "s", "!">>
    /\ result.err = MisplacedCharacter

IsEnumerator == call.fn \in {"find_sequences", "find_three_of_a_kind", "find_pair"}

EnumeratorDone == pc = "done" /\ IsEnumerator

\* the groups an enumerator yielded
YieldedGroups == {result.value[i].group : i \in DOMAIN result.value}

\* the four shapes of a group that starts at number n
RunShapes(n) == {<<n>>, <<n, n + 1>>, <<n, n + 2>>, <<n, n + 1, n + 2>>}

\* the groups the run enumerator is to yield for the tiles: for each suited
\* family, each shape that starts at a number of 1..7 and whose numbers are
\* all present in the family
ExpectedRuns(tiles) ==
    {[i \in DOMAIN shape[1] |-> MahjongTile(shape[1][i], shape[2])] :
        shape \in {x \in (UNION {RunShapes(n) : n \in 1..7}) \X {"s", "m", "p"} :
                      \A i \in DOMAIN x[1] : MahjongTile(x[1][i], x[2]) \in Range(tiles)}}

(* C17 Run enumerator: called with the single no-op constraint, the set of *)
(* groups find_sequences yields is exactly, for each suited family and     *)
(* each number n in 1..7 present in that family, the run (n,n+1,n+2) iff   *)
(* n+1 and n+2 are present, the partial run (n,n+1) iff n+1 is present,    *)
(* the skip-run (n,n+2) iff n+2 is present, and the lone tile (n); no      *)
(* group for honor tiles and none that starts at 8 or 9.                   *)
C17_RunEnumerator ==
    pc = "done" /\ call.fn = "find_sequences" /\ call.constraints.list = <<"NONE">> =>
        YieldedGroups = ExpectedRuns(call.tiles)

\* from [9s, 8s, 7s] the four groups that start at 7, none from 8 or 9
C17_Witness ==
    /\ pc = "done" /\ call.fn = "find_sequences" /\ call.constraints.list = <<"NONE">>
    /\ call.tiles = <<MahjongTile(9, "s"), MahjongTile(8, "s"), MahjongTile(7, "s")>>
    /\ Cardinality(YieldedGroups) = 4
    /\ \A group \in YieldedGroups : group[1] = MahjongTile(7, "s")

(* C18: each of find_sequences, find_three_of_a_kind and find_pair yields  *)
(* every candidate group at most once per call: the sequence it produces   *)
(* holds no two equal groups, also when the tiles hold several copies of a *)
(* tile.                                                                   *)
C18_GroupsYieldedOnce ==
    EnumeratorDone =>
        \A i, j \in DOMAIN result.value :
            i # j => result.value[i].group # result.value[j].group

\* what the code does keep of C18: find_three_of_a_kind and find_pair
\* yield no group twice
CountedGroupsYieldedOnce ==
    EnumeratorDone /\ call.fn # "find_sequences" =>
        \A i, j \in DOMAIN result.value :
            i # j => result.value[i].group # result.value[j].group

Suited(tile) == tile.family \in {"s", "m", "p"}

\* the per-tile predicate of a named constraint
Holds(constraint, tile) ==
    CASE constraint = "NONE" -> TRUE
      [] constraint = "FLUSH_BAMBOO" -> tile.family \in {"s", "z"}
      [] constraint = "FLUSH_CIRCLE" -> tile.family \in {"p", "z"}
      [] constraint = "FLUSH_CHARACTER" -> tile.family \in {"m", "z"}
      [] constraint = "FIRST_FOUR" -> Suited(tile) /\ tile.number \in 1..4
      [] constraint = "LAST_FOUR" -> Suited(tile) /\ tile.number \in 6..9
      [] constraint = "FIRST_THREE" -> Suited(tile) /\ tile.number \in 1..3
      [] constraint = "MIDDLE_THREE" -> Suited(tile) /\ tile.number \in 4..6
      [] constraint = "LAST_THREE" -> Suited(tile) /\ tile.number \in 7..9
      [] constraint = "EVEN" -> Suited(tile) /\ tile.number \in {2, 4, 6, 8}
      [] constraint = "SYMMETRIC" -> is_symmetric(tile)
      [] constraint = "FULL_TERMINALS_OR_HONORS" ->
           ~Suited(tile) \/ tile.number \in {1, 9}
      [] constraint = "FULL_HONORS" -> ~Suited(tile)
      [] constraint = "FULL_TERMINALS" -> Suited(tile) /\ tile.number \in {1, 9}
      [] constraint = "GREEN" -> is_green(tile)

HoldsForAll(constraint, group) == \A tile \in Range(group) : Holds(constraint, tile)

\* the requested constraints that hold for every tile of the group
HoldingConstraints(requested, group) ==
    SelectSeq(requested, LAMBDA constraint : HoldsForAll(constraint, group))

(* C19 Constraint filtering, as the spec states it: the constraints        *)
(* attached to a group an enumerator yields are exactly the requested      *)
(* constraints whose per-tile predicate holds for every tile of the group, *)
(* and a group for which no requested constraint holds is not yielded.     *)
C19_ConstraintFilteringPerTile ==
    EnumeratorDone =>
        \A i \in DOMAIN result.value :
            /\ result.value[i].respected =
                  HoldingConstraints(call.constraints.list, result.value[i].group)
            /\ result.value[i].respected # <<>>

\* a group of two tiles that waits for tiles none of which is symmetric
WaitsForNoSymmetricTile(group) ==
    /\ ExpectedWaits(group) # {}
    /\ \A tile \in ExpectedWaits(group) : ~is_symmetric(tile)

\* the requested constraints that hold for every tile of the group, less
\* the symmetric constraint when the group waits for no symmetric tile
AttachedConstraints(requested, group) ==
    SelectSeq(requested,
              LAMBDA constraint :
                  /\ HoldsForAll(constraint, group)
                  /\ constraint = "SYMMETRIC" => ~WaitsForNoSymmetricTile(group))

(* C19 as amended: the same, except that the symmetric constraint is       *)
(* attached only if, in addition, the group is not a group of two tiles    *)
(* whose waits (by the two-tile wait rule) are all tiles that are not      *)
(* symmetric.                                                              *)
C19_ConstraintFiltering ==
    EnumeratorDone =>
        \A i \in DOMAIN result.value :
            /\ result.value[i].respected =
                  AttachedConstraints(call.constraints.list, result.value[i].group)
            /\ result.value[i].respected # <<>>

\* from [2s, 3s, 4s] with every constraint requested: the run is yielded
\* with four constraints, and the skip-run [2s, 4s] without the symmetric
\* constraint, for it waits for 3s
C19_Witness ==
    /\ pc = "done" /\ call.fn = "find_sequences"
    /\ call.tiles = <<MahjongTile(2, "s"), MahjongTile(3, "s"), MahjongTile(4, "s")>>
    /\ \E i \in DOMAIN result.value :
          /\ result.value[i].group = call.tiles
          /\ result.value[i].respected = <<"NONE", "FLUSH_BAMBOO", "FIRST_FOUR", "GREEN">>
    /\ \E i \in DOMAIN result.value :
          /\ result.value[i].group = <<MahjongTile(2, "s"), MahjongTile(4, "s")>>
          /\ result.value[i].respected =
                <<"NONE", "FLUSH_BAMBOO", "FIRST_FOUR", "EVEN", "GREEN">>

\* a list without the no-op constraint: a group is left out
C19_WitnessNotYielded ==
    /\ pc = "done" /\ call.fn = "find_pair"
    /\ call.constraints.list = <<"FULL_HONORS", "EVEN", "LAST_THREE", "SYMMETRIC", "EVEN">>
    /\ call.tiles = <<MahjongTile(3, "s"), MahjongTile(1, "z")>>
    /\ YieldedGroups = {<<MahjongTile(1, "z")>>}

(* C20: in the mapping the constrained search returns, every key is one of *)
(* the requested constraints and every decomposition listed under a        *)
(* constraint c consists only of groups whose tiles all satisfy c.         *)
C20_ConstraintScope ==
    pc = "done" /\ call.fn = "all_groups_for_with_constraints" /\ result.err = NoError =>
        /\ DOMAIN result.value \subseteq Range(call.constraints.list)
        /\ \A c \in DOMAIN result.value : \A i \in DOMAIN result.value[c] :
              \A group \in Range(result.value[c][i].groups) : HoldsForAll(c, group)

\* a decomposition of two groups listed under the no-op constraint and not
\* under the half flush of bamboos, which one of its groups violates
C20_Witness ==
    /\ pc = "done" /\ call.fn = "all_groups_for_with_constraints" /\ result.err = NoError
    /\ {"NONE", "FLUSH_BAMBOO"} \subseteq DOMAIN result.value
    /\ \E i \in DOMAIN result.value["NONE"] :
          /\ Len(result.value["NONE"][i].groups) = 2
          /\ \E group \in Range(result.value["NONE"][i].groups) :
                ~HoldsForAll("FLUSH_BAMBOO", group)
          /\ result.value["NONE"][i].groups \notin GroupTuples(result.value["FLUSH_BAMBOO"])

-----------------------------------------------------------------------------
(* C25 No decomposition twice: in the result of one decomposition call no  *)
(* two decompositions listed under the same constraint have the same       *)
(* sorted tuple of groups.                                                 *)
C25_NoDecompositionTwice ==
    SearchDone /\ result.err = NoError =>
        \A c \in DOMAIN Listed : \A i, j \in DOMAIN Listed[c] :
            Listed[c][i].groups = Listed[c][j].groups => i = j

\* two runs are requested and a listed decomposition has two different
\* groups, each of which find_sequences yields from the whole hand: the
\* search reaches the decomposition in both orders
C25_Witness ==
    /\ SearchDone /\ result.err = NoError
    /\ call.sequence = 2 /\ call.three_same = 0 /\ call.pair = 0
    /\ \E c \in DOMAIN Listed : \E i \in DOMAIN Listed[c] :
          /\ Listed[c][i].groups[1] # Listed[c][i].groups[2]
          /\ Len(Listed[c][i].groups[1]) = 3

-----------------------------------------------------------------------------
\* the positions of the template that stand for one tile each
TilePositions(template) ==
    {i \in DOMAIN template : IsDigit(template[i]) \/ isupper(template[i])}

\* the digits of the template whose run of digits ends with a family letter
LiteralTilePositions(template) ==
    {i \in DigitPositions(template) :
        \E j \in (i + 1)..Len(template) :
            /\ IsFamilyLetter(template[j])
            /\ \A k \in (i + 1)..(j - 1) : IsDigit(template[k])}

\* the pattern has one digit per tile position of the template, and each
\* literal tile of the template as often as the template has it
KeepsTiles(template, pattern, tiles) ==
    /\ Cardinality(DigitPositions(pattern)) = Cardinality(TilePositions(template))
    /\ \A i \in LiteralTilePositions(template) :
          ListCount(tiles, DenotedTile(template, i))
              >= Cardinality({j \in LiteralTilePositions(template) :
                                DenotedTile(template, j) = DenotedTile(template, i)})

(* C26 Tiles of a template: every pattern pattern_generator yields has one *)
(* tile per digit and per number wildcard of the template, and holds every *)
(* literal tile of the template (a digit with the family letter that ends  *)
(* its run of digits), also one that stands before a number-wildcard block *)
(* as in 123sABCp.                                                         *)
C26_TemplateTilesKept ==
    PatternDone /\ result.err = NoError =>
        \A k \in DOMAIN result.value :
            KeepsTiles(call.input_pattern, result.value[k],
                       parse_tiles(result.value[k]).value)

-----------------------------------------------------------------------------
\* the groups of a decomposition that are pairs
PairGroups(groups) ==
    {i \in DOMAIN groups : Len(groups[i]) = 2 /\ groups[i][1] = groups[i][2]}

\* what a group of a decomposition contributes to the acceptance: a lone
\* tile its neighbourhood of two numbers in its suit when the decomposition
\* has a pair, itself when it is an honor or when there is no pair; the
\* only pair nothing; another group of two tiles its waits
Contribution(groups, i) ==
    IF Len(groups[i]) = 1
    THEN IF PairGroups(groups) # {} /\ groups[i][1].family # HONOR
         THEN {MahjongTile(k, groups[i][1].family) :
                  k \in {k \in 1..9 : /\ groups[i][1].number - 2 <= k
                                       /\ k <= groups[i][1].number + 2}}
         ELSE {groups[i][1]}
    ELSE IF Len(groups[i]) = 2 /\ PairGroups(groups) # {i}
    THEN ExpectedWaits(groups[i])
    ELSE {}

(* C23 Lone-tile acceptance: the acceptance of a decomposition is the      *)
(* union of what its groups contribute, where a one-tile group of a suited *)
(* tile numbered n contributes the tiles of its suit numbered max(1, n-2)  *)
(* to min(9, n+2) when the decomposition has a pair group, a one-tile      *)
(* group of an honor tile that tile, a one-tile group of a decomposition   *)
(* with no pair its own tile, and the only pair of the decomposition       *)
(* nothing.                                                                *)
C23_LoneTileAcceptance ==
    pc = "done" /\ call.fn = "_get_tile_acceptance_of_groups" =>
        result.value = UNION {Contribution(call.groups, i) : i \in DOMAIN call.groups}

\* the only pair with the lone tile 2s: the acceptance is 1s to 4s
C23_Witness ==
    /\ pc = "done" /\ call.fn = "_get_tile_acceptance_of_groups"
    /\ call.groups = <<<<MahjongTile(5, "s"), MahjongTile(5, "s")>>, <<MahjongTile(2, "s")>>>>
    /\ result.value = {MahjongTile(n, "s") : n \in 1..4}

-----------------------------------------------------------------------------
\* the call made as the first top-level call
AsFirstCall ==
    IF call.fn = "all_groups_for"
    THEN all_groups_for(call.tiles, call.sequence, call.three_same, call.pair)
    ELSE all_groups_for_with_constraints(call.tiles, call.sequence, call.three_same,
                                         call.pair, call.constraints)

(* C21 Memo per call: a call of all_groups_for or of                       *)
(* all_groups_for_with_constraints made after other decomposition calls,   *)
(* with the same or with other tiles, returns or raises what the same call *)
(* returns or raises when it is the first call.                            *)
C21_MemoPerCall ==
    SearchDone /\ Nth(call) > 1 => result = AsFirstCall

\* a later call returns a decomposition whose group combination the search
\* of the call before it has put in its cache
C21_Witness ==
    /\ SearchDone /\ Nth(call) > 1 /\ result.err = NoError
    /\ \E c \in DOMAIN Listed : \E i \in DOMAIN Listed[c] :
          /\ Len(Listed[c][i].groups) = 2
          /\ Listed[c][i].groups \in call.left

-----------------------------------------------------------------------------
\* how often a tile occurs in the leftovers of the decompositions of the
\* best hand types
Occurrences(tile) ==
    Cardinality({p \in UNION {UNION {{<<k, i, j>> : j \in DOMAIN call.results[k][i].residue} :
                                          i \in DOMAIN call.results[k]} :
                                k \in Range(call.best_results)} :
                    call.results[p[1]][p[2]].residue[p[3]] = tile})

LeftoverTiles == {tile \in ValidTiles : Occurrences(tile) > 0}

\* the tiles that occur most often in those leftovers
MostRepeated ==
    {tile \in LeftoverTiles : \A other \in LeftoverTiles :
        Occurrences(other) <= Occurrences(tile)}

DistanceFromFive(tile) == IF tile.number < 5 THEN 5 - tile.number ELSE tile.number - 5

\* the text recommends that tile
Recommends(text, tile) ==
    text = <<"Tile to discard next: ">> \o str(tile.number) \o <<tile.family, "\n">>

(* C22 Discard recommendation: the tile recommended is one of the tiles    *)
(* that occur most often in the leftovers of all decompositions of the     *)
(* best hand types; it is an honor when an honor is among these tiles,     *)
(* else no tile among them is farther from 5; when all these leftovers are *)
(* empty no tile is recommended.                                           *)
C22_DiscardRecommendation ==
    pc = "done" /\ call.fn = "_print_best_discard_choice" =>
        IF LeftoverTiles = {} THEN result.value = <<"\n">>
        ELSE \E tile \in MostRepeated :
                /\ Recommends(result.value, tile)
                /\ (\E other \in MostRepeated : other.family = HONOR) => tile.family = HONOR
                /\ (\A other \in MostRepeated : other.family # HONOR) =>
                       \A other \in MostRepeated :
                           DistanceFromFive(other) <= DistanceFromFive(tile)

\* 9s and 1z are left once in the decompositions of each of two best hand
\* types, 9s first: the honor is recommended
C22_Witness ==
    /\ pc = "done" /\ call.fn = "_print_best_discard_choice"
    /\ Len(call.best_results) = 2
    /\ MostRepeated = {MahjongTile(9, BAMBOO), MahjongTile(1, HONOR)}
    /\ Occurrences(MahjongTile(1, HONOR)) = 2
    /\ call.results["Pure Straight"][1].residue[1] = MahjongTile(9, BAMBOO)
    /\ Recommends(result.value, MahjongTile(1, HONOR))

\* 4s and 9s are left once each, 4s first: 9s is recommended
C22_WitnessFarthest ==
    /\ pc = "done" /\ call.fn = "_print_best_discard_choice"
    /\ call.results["Pure Straight"][1].residue = <<MahjongTile(4, BAMBOO), MahjongTile(9, BAMBOO)>>
    /\ Len(call.results["Pure Straight"]) = 1 /\ call.best_results = <<"Pure Straight">>
    /\ Recommends(result.value, MahjongTile(9, BAMBOO))

-----------------------------------------------------------------------------
PrintDone == pc = "done" /\ call.fn = "_print_result"

\* the groups of at most one tile of a combination
LoneGroups(res) == Cardinality({g \in DOMAIN res.groups : Len(res.groups[g]) <= 1})

\* the combinations of the call with the fewest groups of at most one tile
FewestLoneGroups ==
    {i \in DOMAIN call.best_groups :
        \A j \in DOMAIN call.best_groups :
            LoneGroups(call.best_groups[i]) <= LoneGroups(call.best_groups[j])}

\* the lines of a text after its first line
RECURSIVE LinesOf(_)
LinesOf(text) ==
    IF text = <<>> THEN <<>>
    ELSE LET end == CHOOSE i \in DOMAIN text :
                        text[i] = "\n" /\ \A j \in 1..(i - 1) : text[j] # "\n"
         IN <<SubSeq(text, 1, end - 1)>> \o LinesOf(SubSeq(text, end + 1, Len(text)))

Section == Tail(LinesOf(result.value))

EndsWithEllipsis == Section # <<>> /\ Section[Len(Section)] = <<"...">>

\* the section lists these combinations of the call, in this order
Lists(section, indices) ==
    section = [k \in DOMAIN indices |-> str_combination(call.best_groups[indices[k]])]

(* C24 Report section size: a section lists every decomposition, without   *)
(* ellipsis, when there are at most 10 of them, 10 included; it lists at    *)
(* most 10 of those with the fewest groups of at most one tile, followed    *)
(* by an ellipsis, only when there are more than 10.                        *)
C24_SectionSize ==
    PrintDone /\ call.best_groups # <<>> =>
        LET n == Len(call.best_groups)
        IN /\ n <= 10 => Lists(Section, [i \in 1..n |-> i])
           /\ EndsWithEllipsis => n > 10
           /\ n > 10 =>
                 /\ EndsWithEllipsis
                 /\ Len(Section) - 1 <= 10
                 /\ \A k \in 1..(Len(Section) - 1) :
                        \E i \in FewestLoneGroups :
                            Section[k] = str_combination(call.best_groups[i])

\* what the code does: the sections of fewer than 10 decompositions list them
\* all without ellipsis, those of 10 and more list the first 10 of those with
\* the fewest groups of at most one tile and end with an ellipsis
SectionSizeFromTen ==
    PrintDone /\ call.best_groups # <<>> =>
        LET n == Len(call.best_groups)
            fewest == SelectSeq([i \in 1..n |-> i], LAMBDA i : i \in FewestLoneGroups)
        IN IF n < 10 THEN Lists(Section, [i \in 1..n |-> i])
           ELSE /\ EndsWithEllipsis
                /\ Lists(SubSeq(Section, 1, Len(Section) - 1),
                         SubSeq(fewest, 1, IF Len(fewest) > 10 THEN 10 ELSE Len(fewest)))

\* a section of exactly 10 decompositions that lists one of them and ends
\* with an ellipsis
TenDecompositionsOneListed ==
    /\ PrintDone /\ Len(call.best_groups) = 10
    /\ Len(Section) = 2 /\ EndsWithEllipsis

-----------------------------------------------------------------------------
AllTypesDone == pc = "done" /\ call.fn = "_can_construct_all_types"

\* the acceptance of one block of the hand of the call: what
\* _find_groups_and_concatenate computes for its tiles alone
BlockAcceptance(b) ==
    _find_groups_and_concatenate(AllTypesBlocks(call.hand_tiles)[b].tiles, <<>>,
                                 AllTypesBlocks(call.hand_tiles)[b].all_valid_tiles,
                                 {}).acceptance

(* C27 All-types acceptance: the acceptance returned for the all types     *)
(* hand is the union of the acceptance of its five blocks, circles,        *)
(* characters, bamboos, winds and dragons.                                  *)
C27_AllTypesAcceptance ==
    AllTypesDone => result.value.acceptance = UNION {BlockAcceptance(b) : b \in 1..5}

\* what the code returns: the acceptance of the last block, the dragons
AllTypesAcceptanceOfDragons ==
    AllTypesDone => result.value.acceptance = BlockAcceptance(5)

\* the hand 1p 2p 1z 5z: 3p is accepted by the circles and is not returned
AllTypesWaitDropped ==
    /\ AllTypesDone
    /\ call.hand_tiles = <<MahjongTile(1, CIRCLE), MahjongTile(2, CIRCLE),
                           MahjongTile(1, HONOR), MahjongTile(5, HONOR)>>
    /\ MahjongTile(3, CIRCLE) \in BlockAcceptance(1)
    /\ result.value.acceptance = {MahjongTile(5, HONOR)}

-----------------------------------------------------------------------------
HalfFlushDone == pc = "done" /\ call.fn = "_can_construct_half_flush_from_precomputed"

\* the suits of the decompositions retained as best
BestSuits ==
    {tile.family : tile \in UNION {Range(Flatten(result.value.result[i].groups)) :
                                      i \in DOMAIN result.value.result}} \ {HONOR}

\* the waits that complete a group of a retained decomposition in a suit
CompletionWaits(suit) ==
    {tile \in UNION {_get_tile_acceptance_of_groups(result.value.result[i].groups) :
                        i \in DOMAIN result.value.result} : tile.family = suit}

(* C28 Half-flush acceptance on a tie: when the best half-flush            *)
(* decompositions belong to two suits, the acceptance returned contains    *)
(* the completion waits of both suits.                                     *)
C28_HalfFlushTie ==
    HalfFlushDone /\ result.err = NoError /\ Cardinality(BestSuits) = 2 =>
        \A suit \in BestSuits : CompletionWaits(suit) \subseteq result.value.acceptance

\* what the code returns: the waits of the suit of the first retained
\* decomposition and of the honors
HalfFlushAcceptanceOfFirstSuit ==
    HalfFlushDone /\ result.err = NoError /\ result.value.result # <<>> =>
        LET first == result.value.result[1].groups[1][1].family
        IN result.value.acceptance = CompletionWaits(first) \cup CompletionWaits(HONOR)

\* 1289p 1289s 11122z: both suits are retained, 3s completes 1s 2s and is
\* not returned
HalfFlushWaitDropped ==
    /\ HalfFlushDone
    /\ BestSuits = {CIRCLE, BAMBOO}
    /\ MahjongTile(3, BAMBOO) \in CompletionWaits(BAMBOO)
    /\ MahjongTile(3, CIRCLE) \in result.value.acceptance
    /\ MahjongTile(3, BAMBOO) \notin result.value.acceptance

\* 12889p 159s 11122z: only the circles are retained
HalfFlushOneSuit ==
    HalfFlushDone /\ BestSuits = {CIRCLE} /\ Len(call.precomputed["FLUSH_BAMBOO"]) = 3

====
